---- MODULE Spec2Model ----
(***************************************************************************)
(* ntfs3 (out-of-tree) super.c: the shared 'upcase' table registry          *)
(* (ntfs_set_shared / ntfs_put_shared), the mount bootstrap                 *)
(* (ntfs_fill_super) and the teardown (put_ntfs).                           *)
(*                                                                          *)
(* Three specifications share the variables:                                *)
(*   SpecReg  - callers use the registry one call at a time                 *)
(*   SpecLock - two threads run the registry functions statement by         *)
(*              statement under s_shared_lock                               *)
(*   Spec     - volumes run ntfs_fill_super step by step and unmount        *)
(***************************************************************************)
EXTENDS Integers, Sequences, FiniteSets, TLC

VARIABLES
    s_shared,       \* the registry: slot -> [ptr, len, cnt]
    s_shared_lock,  \* 0 when free, else the thread that holds the spinlock
    mem,            \* the heap: address -> bytes of the buffer, <<>> when not allocated
    nres,           \* number of resident volumes mounted before the window starts
    hist,           \* per buffer: acquisitions and releases through the registry, frees of dead memory
    ncalls,         \* number of registry calls / mounts started in the window
    cl,             \* SpecReg: per caller, the table pointer it holds
    last,           \* SpecReg: the registry call completed last (observation)
    thr,            \* SpecLock: per thread, its position in the registry functions
    vol             \* Spec: per volume, the super block and its ntfs_sb_info

vars == <<s_shared, s_shared_lock, mem, nres, hist, ncalls, cl, last, thr, vol>>

----------------------------------------------------------------------------
(* Sizes *)

NSlots == 8                 \* ARRAY_SIZE(s_shared)
Slots == 0 .. (NSlots - 1)
NULL == 0
NoSlot == 0 - 1             \* int j = -1

MaxAddr == 2                \* heap addresses available to the callers in the window
Addr == 1 .. MaxAddr
ResAddr(k) == MaxAddr + 1 + k          \* buffer of the k-th resident volume
AllAddr == 1 .. (MaxAddr + NSlots)

NClients == 2               \* SpecReg: callers of the registry
MaxCalls == 5               \* SpecReg: registry calls in the window
Clients == 1 .. NClients

(* The k-th resident volume mounted first, so it registered in the highest  *)
(* free slot (j ends as the last free index when nothing matches).          *)
ResSlot(k) == NSlots - 1 - k
ResTable(k) == <<k + 2, k + 2>>

(* Tables the callers of the window bring: two lengths, and one table that  *)
(* equals the first resident's table.                                       *)
FgTables == { <<1>>, <<1, 0>>, <<2, 2>> }

EmptySlot == [ptr |-> NULL, len |-> 0, cnt |-> 0]

(* The registry and heap after the first n resident volumes have mounted.   *)
ResidentRegistry(n) ==
    [i \in Slots |->
        IF i >= NSlots - n
        THEN [ptr |-> ResAddr(NSlots - 1 - i), len |-> 2, cnt |-> 1]
        ELSE EmptySlot]

ResidentHeap(n) ==
    [a \in AllAddr |->
        IF a > MaxAddr /\ a - MaxAddr - 1 < n
        THEN ResTable(a - MaxAddr - 1)
        ELSE <<>>]

FreeAddrs(m) == { a \in Addr : m[a] = <<>> }

----------------------------------------------------------------------------
(* memcmp(p, q, n) == 0 on two heap buffers *)

MemEq(p, q, n) ==
    /\ Len(p) >= n
    /\ Len(q) >= n
    /\ \A k \in 1 .. n : p[k] = q[k]

----------------------------------------------------------------------------
(* ntfs_set_shared *)

SetLocals == [i |-> 0, j |-> NoSlot, ret |-> NULL, brk |-> FALSE, cmp |-> {}]

(* One iteration of the for loop; l holds i, j, ret, whether the loop was   *)
(* left by break, and (cmp) the slots whose buffer memcmp has read.         *)
SetLoopBody_NoLen(reg, m, ptr, bytes, l) ==
    IF reg[l.i].cnt = 0
    THEN [reg |-> reg, l |-> [l EXCEPT !.j = l.i, !.i = l.i + 1]]
    ELSE IF MemEq(m[reg[l.i].ptr], m[ptr], bytes)
    THEN [reg |-> [reg EXCEPT ![l.i].cnt = @ + 1],
          l   |-> [l EXCEPT !.ret = reg[l.i].ptr, !.brk = TRUE,
                            !.cmp = @ \cup {l.i}]]
    ELSE [reg |-> reg, l |-> [l EXCEPT !.i = l.i + 1, !.cmp = @ \cup {l.i}]]

SetLoopBody_CmpFirst(reg, m, ptr, bytes, l) ==
    IF bytes = reg[l.i].len /\ MemEq(m[reg[l.i].ptr], m[ptr], bytes)
    THEN [reg |-> [reg EXCEPT ![l.i].cnt = @ + 1],
          l   |-> [l EXCEPT !.ret = reg[l.i].ptr, !.brk = TRUE,
                            !.cmp = @ \cup {l.i}]]
    ELSE IF reg[l.i].cnt = 0
    THEN [reg |-> reg,
          l   |-> [l EXCEPT !.j = l.i, !.i = l.i + 1,
                            !.cmp = IF bytes = reg[l.i].len
                                    THEN @ \cup {l.i} ELSE @]]
    ELSE [reg |-> reg,
          l   |-> [l EXCEPT !.i = l.i + 1,
                            !.cmp = IF bytes = reg[l.i].len
                                    THEN @ \cup {l.i} ELSE @]]

SetLoopBody(reg, m, ptr, bytes, l) ==
    IF reg[l.i].cnt = 0
    THEN [reg |-> reg, l |-> [l EXCEPT !.j = l.i, !.i = l.i + 1]]
    ELSE IF bytes = reg[l.i].len /\ MemEq(m[reg[l.i].ptr], m[ptr], bytes)
    THEN [reg |-> [reg EXCEPT ![l.i].cnt = @ + 1],
          l   |-> [l EXCEPT !.ret = reg[l.i].ptr, !.brk = TRUE,
                            !.cmp = @ \cup {l.i}]]
    ELSE [reg |-> reg,
          l   |-> [l EXCEPT !.i = l.i + 1,
                            !.cmp = IF bytes = reg[l.i].len
                                    THEN @ \cup {l.i} ELSE @]]

SetLoopDone(l) == l.brk \/ l.i >= NSlots

RECURSIVE SetLoop(_, _, _, _, _)
SetLoop(reg, m, ptr, bytes, l) ==
    IF SetLoopDone(l)
    THEN [reg |-> reg, l |-> l]
    ELSE LET s == SetLoopBody(reg, m, ptr, bytes, l)
         IN  SetLoop(s.reg, m, ptr, bytes, s.l)

SetStore_NoRetTest(reg, ptr, bytes, l) ==
    IF l.j # NoSlot
    THEN [reg |-> [reg EXCEPT ![l.j] = [ptr |-> ptr, len |-> bytes, cnt |-> 1]],
          l   |-> [l EXCEPT !.ret = ptr]]
    ELSE [reg |-> reg, l |-> l]

(* if (!ret && j != -1) { store the candidate } *)
SetStore(reg, ptr, bytes, l) ==
    IF l.ret = NULL /\ l.j # NoSlot
    THEN [reg |-> [reg EXCEPT ![l.j] = [ptr |-> ptr, len |-> bytes, cnt |-> 1]],
          l   |-> [l EXCEPT !.ret = ptr]]
    ELSE [reg |-> reg, l |-> l]

(* The whole call: the registry afterwards and the returned pointer. *)
ntfs_set_shared(reg, m, ptr, bytes) ==
    LET a == SetLoop(reg, m, ptr, bytes, SetLocals)
        b == SetStore(a.reg, ptr, bytes, a.l)
    IN  [reg |-> b.reg, ret |-> b.l.ret]

----------------------------------------------------------------------------
(* ntfs_put_shared *)

PutLocals(ptr) == [i |-> 0, ret |-> ptr, brk |-> FALSE]

PutLoopBody_PostDec(reg, ptr, l) ==
    IF reg[l.i].cnt # 0 /\ reg[l.i].ptr = ptr
    THEN [reg |-> [reg EXCEPT ![l.i].cnt = @ - 1],
          l   |-> [l EXCEPT !.ret = IF reg[l.i].cnt # 0 THEN NULL ELSE l.ret,
                            !.brk = TRUE]]
    ELSE [reg |-> reg, l |-> [l EXCEPT !.i = l.i + 1]]

PutLoopBody_NoCntTest(reg, ptr, l) ==
    IF reg[l.i].ptr = ptr
    THEN [reg |-> [reg EXCEPT ![l.i].cnt = @ - 1],
          l   |-> [l EXCEPT !.ret = IF reg[l.i].cnt - 1 # 0 THEN NULL ELSE l.ret,
                            !.brk = TRUE]]
    ELSE [reg |-> reg, l |-> [l EXCEPT !.i = l.i + 1]]

(* if (cnt && ptr == ptr) { if (--cnt) ret = NULL; break; } *)
PutLoopBody(reg, ptr, l) ==
    IF reg[l.i].cnt # 0 /\ reg[l.i].ptr = ptr
    THEN [reg |-> [reg EXCEPT ![l.i].cnt = @ - 1],
          l   |-> [l EXCEPT !.ret = IF reg[l.i].cnt - 1 # 0 THEN NULL ELSE l.ret,
                            !.brk = TRUE]]
    ELSE [reg |-> reg, l |-> [l EXCEPT !.i = l.i + 1]]

PutLoopDone(l) == l.brk \/ l.i >= NSlots

RECURSIVE PutLoop(_, _, _)
PutLoop(reg, ptr, l) ==
    IF PutLoopDone(l)
    THEN [reg |-> reg, l |-> l]
    ELSE LET s == PutLoopBody(reg, ptr, l)
         IN  PutLoop(s.reg, ptr, s.l)

ntfs_put_shared(reg, ptr) ==
    LET a == PutLoop(reg, ptr, PutLocals(ptr))
    IN  [reg |-> a.reg, ret |-> a.l.ret]

(* ntfs_free(p): kfree, a no-op on NULL *)
ntfs_free(m, p) == IF p = NULL THEN m ELSE [m EXCEPT ![p] = <<>>]

----------------------------------------------------------------------------
(* Bookkeeping of the observation 'hist': per address, for the buffer now  *)
(* living there, the number of acquisitions through the registry that have  *)
(* not been released yet (out), the largest value this number has had       *)
(* (peak), and whether ntfs_free hit memory that was not allocated.         *)

NoHist == [out |-> 0, peak |-> 0, dfree |-> 0]

ResidentHist(n) ==
    [a \in AllAddr |->
        IF a > MaxAddr /\ a - MaxAddr - 1 < n
        THEN [out |-> 1, peak |-> 1, dfree |-> 0]
        ELSE NoHist]

Max(x, y) == IF x >= y THEN x ELSE y

(* ntfs_set_shared returned p *)
HistAcq(h, p) ==
    IF p = NULL THEN h
    ELSE [h EXCEPT ![p].out = @ + 1, ![p].peak = Max(@, h[p].out + 1)]
(* ntfs_put_shared was called on p *)
HistRel(h, p) ==
    IF p = NULL \/ h[p].out = 0 THEN h ELSE [h EXCEPT ![p].out = @ - 1]
(* ntfs_free(p) seen by the observation: a live buffer dies and its         *)
(* counters restart; freeing dead memory is recorded.                       *)
HistFree(h, m, p) ==
    IF p = NULL THEN h
    ELSE IF m[p] = <<>> THEN [h EXCEPT ![p].dfree = 1]
    ELSE [h EXCEPT ![p] = [out |-> 0, peak |-> 0, dfree |-> @.dfree]]

Occupied(reg) == { i \in Slots : reg[i].cnt # 0 }
Registered(reg, p) == \E i \in Occupied(reg) : reg[i].ptr = p

(* The caller's side of ntfs_set_shared in ntfs_fill_super:                 *)
(*   shared = ntfs_set_shared(upcase, bytes);                               *)
(*   if (shared && upcase != shared) { sbi->upcase = shared;                *)
(*                                     ntfs_free(upcase); }                 *)
(* m is the heap with the candidate at address a.                           *)
UpcaseKept_Candidate(ret, a) == a

UpcaseKept(ret, a) == IF ret # NULL /\ ret # a THEN ret ELSE a
UpcaseDropped(ret, a) == IF ret # NULL /\ ret # a THEN a ELSE NULL

----------------------------------------------------------------------------
(* SpecReg: callers use the registry one call at a time *)

NoCall == [op |-> "none", c |-> 0, ptr |-> NULL, bytes |-> 0, tbl |-> <<>>,
           ret |-> NULL, out |-> 0, peak |-> 0]

IdleThreads == [t \in {1, 2} |-> [pc |-> "idle"]]
NoVolumes == [v \in {1} |-> [pc |-> "unmounted"]]

InitReg ==
    /\ nres \in 0 .. NSlots
    /\ s_shared = ResidentRegistry(nres)
    /\ s_shared_lock = 0
    /\ mem = ResidentHeap(nres)
    /\ hist = ResidentHist(nres)
    /\ ncalls = 0
    /\ cl = [c \in Clients |-> NULL]
    /\ last = NoCall
    /\ thr = IdleThreads
    /\ vol = NoVolumes

(* A caller reads table tbl into a fresh buffer at address a and offers it. *)
Acquire(c, tbl, a) ==
    /\ cl[c] = NULL
    /\ a \in FreeAddrs(mem)
    /\ LET m1   == [mem EXCEPT ![a] = tbl]
           r    == ntfs_set_shared(s_shared, m1, a, Len(tbl))
           keep == UpcaseKept(r.ret, a)
           drop == UpcaseDropped(r.ret, a)
       IN  /\ s_shared' = r.reg
           /\ mem' = ntfs_free(m1, drop)
           /\ hist' = HistFree(HistAcq(hist, r.ret), m1, drop)
           /\ cl' = [cl EXCEPT ![c] = keep]

RegAcquire(c) ==
    /\ ncalls < MaxCalls
    /\ ncalls' = ncalls + 1
    /\ \E tbl \in FgTables, a \in Addr :
         /\ Acquire(c, tbl, a)
         /\ last' = [op |-> "set", c |-> c, ptr |-> a, bytes |-> Len(tbl),
                     tbl |-> tbl,
                     ret |-> ntfs_set_shared(s_shared, [mem EXCEPT ![a] = tbl],
                                             a, Len(tbl)).ret,
                     out |-> 0, peak |-> 0]
    /\ UNCHANGED <<s_shared_lock, nres, thr, vol>>

(* A caller gives its table back: ntfs_free(ntfs_put_shared(sbi->upcase)). *)
Release(c) ==
    /\ cl[c] # NULL
    /\ LET p == cl[c]
           r == ntfs_put_shared(s_shared, p)
       IN  /\ s_shared' = r.reg
           /\ mem' = ntfs_free(mem, r.ret)
           /\ hist' = HistFree(HistRel(hist, p), mem, r.ret)
           /\ cl' = [cl EXCEPT ![c] = NULL]

RegRelease(c) ==
    /\ ncalls < MaxCalls
    /\ ncalls' = ncalls + 1
    /\ Release(c)
    /\ last' = [op |-> "put", c |-> c, ptr |-> cl[c], bytes |-> 0,
                tbl |-> mem[cl[c]],
                ret |-> ntfs_put_shared(s_shared, cl[c]).ret,
                out |-> hist[cl[c]].out, peak |-> hist[cl[c]].peak]
    /\ UNCHANGED <<s_shared_lock, nres, thr, vol>>

NextReg == \E c \in Clients : RegAcquire(c) \/ RegRelease(c)

SpecReg == InitReg /\ [][NextReg]_vars

----------------------------------------------------------------------------
(* SpecLock: two threads (mounts and unmounts of different volumes) run     *)
(* ntfs_set_shared and ntfs_put_shared statement by statement.              *)

Threads == {1, 2}
MaxLockCalls == 4           \* SpecLock: registry calls started in the window

(* spin_lock(&s_shared_lock) returns only when no other thread holds it *)
LockMutant_NeverBlocks(lk) == TRUE

SpinLockFree(lk) == lk = 0

InCall(pc) == pc \in {"set_loop", "set_unlock", "put_loop", "put_unlock"}

IdleThread == [pc |-> "idle", own |-> NULL, arg |-> NULL, bytes |-> 0,
               l |-> SetLocals, snap |-> <<>>]

InitLock ==
    /\ nres \in 0 .. NSlots
    /\ s_shared = ResidentRegistry(nres)
    /\ s_shared_lock = 0
    /\ mem = ResidentHeap(nres)
    /\ hist = ResidentHist(nres)
    /\ ncalls = 0
    /\ cl = [c \in Clients |-> NULL]
    /\ last = NoCall
    /\ thr = [t \in Threads |-> IdleThread]
    /\ vol = NoVolumes

(* sbi->upcase = upcase = ntfs_alloc(...); the table is read into it and    *)
(* ntfs_set_shared(upcase, bytes) is entered.                               *)
LkCallSet(t) ==
    /\ thr[t].pc = "idle"
    /\ thr[t].own = NULL
    /\ ncalls < MaxLockCalls
    /\ ncalls' = ncalls + 1
    /\ \E tbl \in FgTables, a \in FreeAddrs(mem) :
         /\ mem' = [mem EXCEPT ![a] = tbl]
         /\ thr' = [thr EXCEPT ![t] = [IdleThread EXCEPT !.pc = "set_lock",
                                        !.own = a, !.arg = a, !.bytes = Len(tbl)]]
    /\ UNCHANGED <<s_shared, s_shared_lock, nres, hist, cl, last, vol>>

(* put_ntfs: ntfs_put_shared(sbi->upcase) is entered. *)
LkCallPut(t) ==
    /\ thr[t].pc = "idle"
    /\ thr[t].own # NULL
    /\ ncalls < MaxLockCalls
    /\ ncalls' = ncalls + 1
    /\ thr' = [thr EXCEPT ![t].pc = "put_lock", ![t].arg = thr[t].own]
    /\ UNCHANGED <<s_shared, s_shared_lock, mem, nres, hist, cl, last, vol>>

(* spin_lock(&s_shared_lock), in either function *)
LkSpinLock(t) ==
    /\ thr[t].pc \in {"set_lock", "put_lock"}
    /\ SpinLockFree(s_shared_lock)
    /\ s_shared_lock' = t
    /\ thr' = [thr EXCEPT
                 ![t].pc = IF thr[t].pc = "set_lock" THEN "set_loop" ELSE "put_loop",
                 ![t].l = IF thr[t].pc = "set_lock" THEN SetLocals
                          ELSE PutLocals(thr[t].arg),
                 ![t].snap = s_shared]
    /\ UNCHANGED <<s_shared, mem, nres, hist, ncalls, cl, last, vol>>

(* one iteration of the for loop of ntfs_set_shared *)
LkSetIter(t) ==
    /\ thr[t].pc = "set_loop"
    /\ ~ SetLoopDone(thr[t].l)
    /\ LET s == SetLoopBody(s_shared, mem, thr[t].arg, thr[t].bytes, thr[t].l)
       IN  /\ s_shared' = s.reg
           /\ thr' = [thr EXCEPT ![t].l = s.l]
    /\ UNCHANGED <<s_shared_lock, mem, nres, hist, ncalls, cl, last, vol>>

(* the loop is over: if (!ret && j != -1) store the candidate *)
LkSetStore(t) ==
    /\ thr[t].pc = "set_loop"
    /\ SetLoopDone(thr[t].l)
    /\ LET s == SetStore(s_shared, thr[t].arg, thr[t].bytes, thr[t].l)
       IN  /\ s_shared' = s.reg
           /\ thr' = [thr EXCEPT ![t].l = s.l, ![t].pc = "set_unlock"]
    /\ UNCHANGED <<s_shared_lock, mem, nres, hist, ncalls, cl, last, vol>>

(* spin_unlock(&s_shared_lock); return ret; *)
LkSetUnlock(t) ==
    /\ thr[t].pc = "set_unlock"
    /\ s_shared_lock' = 0
    /\ hist' = HistAcq(hist, thr[t].l.ret)
    /\ thr' = [thr EXCEPT ![t].pc = "set_ret"]
    /\ UNCHANGED <<s_shared, mem, nres, ncalls, cl, last, vol>>

(* back in ntfs_fill_super, the lock no longer held: the caller keeps the   *)
(* returned table and frees its candidate when another buffer came back.    *)
LkSetReturn(t) ==
    /\ thr[t].pc = "set_ret"
    /\ LET ret  == thr[t].l.ret
           drop == UpcaseDropped(ret, thr[t].arg)
       IN  /\ mem' = ntfs_free(mem, drop)
           /\ hist' = HistFree(hist, mem, drop)
           /\ thr' = [thr EXCEPT ![t] = [IdleThread EXCEPT
                                          !.own = UpcaseKept(ret, thr[t].arg)]]
    /\ UNCHANGED <<s_shared, s_shared_lock, nres, ncalls, cl, last, vol>>

(* one iteration of the for loop of ntfs_put_shared *)
LkPutIter(t) ==
    /\ thr[t].pc = "put_loop"
    /\ IF PutLoopDone(thr[t].l)
       THEN /\ thr' = [thr EXCEPT ![t].pc = "put_unlock"]
            /\ UNCHANGED s_shared
       ELSE LET s == PutLoopBody(s_shared, thr[t].arg, thr[t].l)
            IN  /\ s_shared' = s.reg
                /\ thr' = [thr EXCEPT ![t].l = s.l]
    /\ UNCHANGED <<s_shared_lock, mem, nres, hist, ncalls, cl, last, vol>>

(* spin_unlock(&s_shared_lock); return ret; *)
LkPutUnlock(t) ==
    /\ thr[t].pc = "put_unlock"
    /\ s_shared_lock' = 0
    /\ hist' = HistRel(hist, thr[t].arg)
    /\ thr' = [thr EXCEPT ![t].pc = "put_ret"]
    /\ UNCHANGED <<s_shared, mem, nres, ncalls, cl, last, vol>>

(* back in put_ntfs, the lock no longer held: ntfs_free of what came back *)
LkPutReturn(t) ==
    /\ thr[t].pc = "put_ret"
    /\ LET ret == thr[t].l.ret
       IN  /\ mem' = ntfs_free(mem, ret)
           /\ hist' = HistFree(hist, mem, ret)
           /\ thr' = [thr EXCEPT ![t] = IdleThread]
    /\ UNCHANGED <<s_shared, s_shared_lock, nres, ncalls, cl, last, vol>>

NextLock ==
    \E t \in Threads :
        \/ LkCallSet(t)
        \/ LkCallPut(t)
        \/ LkSpinLock(t)
        \/ LkSetIter(t)
        \/ LkSetStore(t)
        \/ LkSetUnlock(t)
        \/ LkSetReturn(t)
        \/ LkPutIter(t)
        \/ LkPutUnlock(t)
        \/ LkPutReturn(t)

SpecLock == InitLock /\ [][NextLock]_vars

----------------------------------------------------------------------------
(* Properties of the registry calls (SpecReg) *)

(* A slot holds a table byte-identical to tbl, of the same length. *)
Matches(reg, m, i, tbl) ==
    /\ reg[i].cnt # 0
    /\ reg[i].len = Len(tbl)
    /\ m[reg[i].ptr] = tbl

(* C1: a buffer acquired n times through the registry is handed back by    *)
(* the n-th ntfs_put_shared on it and by none of the n-1 before (they      *)
(* return NULL): a release returns the buffer exactly when it is the only  *)
(* acquisition still outstanding; the count of an occupied slot is the     *)
(* number of outstanding acquisitions, so two acquisitions give count 2.   *)
C1_ReleaseOnLast ==
    /\ \A i \in Occupied(s_shared) :
          s_shared[i].cnt = hist[s_shared[i].ptr].out
    /\ (last.op = "put" /\ last.out >= 1) =>
          /\ last.out > 1 => last.ret = NULL
          /\ last.out = 1 => last.ret = last.ptr

(* the second release of a buffer that two callers had acquired *)
C1_Witness ==
    /\ last.op = "put"
    /\ last.peak = 2
    /\ last.out = 1
    /\ last.ret = last.ptr

(* C2: an acquire whose candidate equals the table of an occupied slot     *)
(* adds exactly 1 to that slot's count, returns the stored pointer and     *)
(* changes nothing else in the registry.                                   *)
C2_AcquireOnMatch ==
    [][ (last'.op = "set" /\ \E i \in Slots : Matches(s_shared, mem, i, last'.tbl))
        => \E i \in Slots :
              /\ Matches(s_shared, mem, i, last'.tbl)
              /\ s_shared' = [s_shared EXCEPT ![i].cnt = @ + 1]
              /\ last'.ret = s_shared[i].ptr
              /\ last'.ret # last'.ptr ]_vars

(* a match found in a slot that has free slots on both sides *)
C2_Witness ==
    /\ last.op = "set"
    /\ last.ret # NULL
    /\ last.ret # last.ptr
    /\ \E i \in Slots :
          /\ s_shared[i].ptr = last.ret
          /\ s_shared[i].cnt >= 2
          /\ \E k \in Slots : k < i /\ s_shared[k].cnt = 0
          /\ \E k \in Slots : k > i /\ s_shared[k].cnt = 0

(* C3: an acquire without a match registers the candidate in a free slot   *)
(* with count 1 and returns it; with all slots occupied it returns NULL    *)
(* and leaves the registry as it was.                                      *)
C3_AcquireNoMatch ==
    [][ (last'.op = "set" /\ ~ \E i \in Slots : Matches(s_shared, mem, i, last'.tbl))
        => IF Occupied(s_shared) # Slots
           THEN /\ \E j \in Slots \ Occupied(s_shared) :
                     s_shared' = [s_shared EXCEPT ![j] =
                         [ptr |-> last'.ptr, len |-> last'.bytes, cnt |-> 1]]
                /\ last'.ret = last'.ptr
           ELSE /\ last'.ret = NULL
                /\ s_shared' = s_shared ]_vars

C3_Witness ==
    /\ last.op = "set"
    /\ last.ret = NULL
    /\ Occupied(s_shared) = Slots

----------------------------------------------------------------------------
(* Properties of the registry under concurrent callers (SpecLock) *)

(* the buffer thread t holds: once ntfs_set_shared has returned, the one  *)
(* its caller is about to keep; once ntfs_put_shared has returned, none    *)
Holds(t) ==
    IF thr[t].pc = "set_ret" THEN UpcaseKept(thr[t].l.ret, thr[t].arg)
    ELSE IF thr[t].pc = "put_ret" THEN NULL
    ELSE thr[t].own

(* a call has returned the buffer at a to its caller, who has yet to free  *)
(* it                                                                      *)
PendingFree(a) ==
    \E t \in Threads :
        \/ thr[t].pc = "set_ret" /\ UpcaseDropped(thr[t].l.ret, thr[t].arg) = a
        \/ thr[t].pc = "put_ret" /\ thr[t].l.ret = a

Holders(p) == Cardinality({ t \in Threads : Holds(t) = p })
                + (IF p > MaxAddr THEN 1 ELSE 0)

(* C4: every call takes effect atomically under s_shared_lock: at most one *)
(* thread is inside a call; when a call reaches its unlock the registry is *)
(* what the whole call makes of the registry it found at its lock, and so  *)
(* is its result; no count is lost (outside calls every occupied slot      *)
(* counts exactly its holders); identical tables never occupy two slots;   *)
(* a buffer is handed back to exactly one releaser (never freed twice,     *)
(* never held after it was freed, never left without an owner).            *)
C4_CallsAtomic ==
    /\ Cardinality({ t \in Threads : InCall(thr[t].pc) }) <= 1
    /\ \A t \in Threads :
          /\ thr[t].pc = "set_unlock" =>
                LET r == ntfs_set_shared(thr[t].snap, mem, thr[t].arg, thr[t].bytes)
                IN  s_shared = r.reg /\ thr[t].l.ret = r.ret
          /\ thr[t].pc = "put_unlock" =>
                LET r == ntfs_put_shared(thr[t].snap, thr[t].arg)
                IN  s_shared = r.reg /\ thr[t].l.ret = r.ret
          /\ Holds(t) # NULL => mem[Holds(t)] # <<>>
    /\ \A a \in Addr : PendingFree(a) => mem[a] # <<>> /\ Holders(a) = 0
    /\ (\A t \in Threads : ~ InCall(thr[t].pc)) =>
          /\ \A i \in Occupied(s_shared) : s_shared[i].cnt = Holders(s_shared[i].ptr)
          /\ \A a \in Addr : mem[a] # <<>> => Holders(a) >= 1 \/ PendingFree(a)
    /\ \A i, k \in Occupied(s_shared) :
          (i # k) => ~ ( /\ s_shared[i].len = s_shared[k].len
                         /\ mem[s_shared[i].ptr] = mem[s_shared[k].ptr] )
    /\ \A a \in AllAddr : hist[a].dfree = 0

(* one thread has completed the body of an acquire while the other waits   *)
(* at the lock with a byte-identical candidate                             *)
C4_Witness ==
    /\ thr[1].pc = "set_unlock"
    /\ thr[2].pc = "set_lock"
    /\ mem[thr[1].arg] = mem[thr[2].arg]
    /\ thr[1].l.ret = thr[1].arg

----------------------------------------------------------------------------
(* Unsigned 64-bit numbers (u64; a u32 is one whose two upper limbs are 0)  *)
(* as four 16-bit limbs, least significant first, since the sizes of        *)
(* ntfs_init_from_boot reach 2^32 and the cluster numbers 2^64.             *)

Limb == 65536
Limbs == 1 .. 4

(* the u64 with value n, for 0 <= n < 2^31 *)
U64(n) == [i \in Limbs |-> IF i = 1 THEN n % Limb
                           ELSE IF i = 2 THEN n \div Limb ELSE 0]

Zero64 == U64(0)

(* 2^k as a u64, 0 <= k < 64 *)
Pow2(k) == [i \in Limbs |-> IF i = (k \div 16) + 1 THEN 2 ^ (k % 16) ELSE 0]

(* bit i of x, 0 <= i < 64 *)
Bit(x, i) == (x[(i \div 16) + 1] \div (2 ^ (i % 16))) % 2

LimbAt(x, j) == IF j \in Limbs THEN x[j] ELSE 0

(* x + y modulo 2^64 *)
Add64(x, y) ==
    LET s1 == x[1] + y[1]
        s2 == x[2] + y[2] + (s1 \div Limb)
        s3 == x[3] + y[3] + (s2 \div Limb)
        s4 == x[4] + y[4] + (s3 \div Limb)
    IN  [i \in Limbs |-> IF i = 1 THEN s1 % Limb
                         ELSE IF i = 2 THEN s2 % Limb
                         ELSE IF i = 3 THEN s3 % Limb ELSE s4 % Limb]

(* x - y modulo 2^64 *)
Sub64(x, y) ==
    Add64(Add64(x, [i \in Limbs |-> Limb - 1 - y[i]]), U64(1))

(* x << n modulo 2^64, 0 <= n < 64 *)
Shl64(x, n) ==
    LET q == n \div 16
        r == n % 16
    IN  [i \in Limbs |->
            ((LimbAt(x, i - q) % (2 ^ (16 - r))) * (2 ^ r))
              + (LimbAt(x, i - q - 1) \div (2 ^ (16 - r)))]

(* x >> n, 0 <= n < 64 *)
Shr64(x, n) ==
    LET q == n \div 16
        r == n % 16
    IN  [i \in Limbs |->
            (LimbAt(x, i + q) \div (2 ^ r))
              + ((LimbAt(x, i + q + 1) % (2 ^ r)) * (2 ^ (16 - r)))]

(* x < y *)
Lt64(x, y) ==
    \E i \in Limbs : /\ x[i] < y[i]
                     /\ \A j \in Limbs : j > i => x[j] = y[j]

(* (u32)x *)
Trunc32(x) == [i \in Limbs |-> IF i <= 2 THEN x[i] ELSE 0]

(* x & y *)
RECURSIVE AndBits(_, _, _, _)
AndBits(x, y, i, acc) ==
    IF i = 64 THEN acc
    ELSE AndBits(x, y, i + 1,
                 IF Bit(x, i) = 1 /\ Bit(y, i) = 1
                 THEN Add64(acc, Pow2(i)) ELSE acc)

And64(x, y) == AndBits(x, y, 0, Zero64)

(* x * y modulo 2^64 *)
RECURSIVE MulBits(_, _, _, _)
MulBits(x, y, i, acc) ==
    IF i = 64 THEN acc
    ELSE MulBits(x, y, i + 1,
                 IF Bit(y, i) = 1 THEN Add64(acc, Shl64(x, i)) ELSE acc)

Mul64(x, y) == MulBits(x, y, 0, Zero64)

(* is_power_of2(v): v && !(v & (v - 1)) *)
is_power_of2(v) == v # Zero64 /\ And64(v, Sub64(v, U64(1))) = Zero64

(* order_base_2(n): 0 for n <= 1, else the least k with n <= 2^k *)
RECURSIVE order_base_2_from(_, _)
order_base_2_from(n, k) ==
    IF ~ Lt64(Pow2(k), n) THEN k ELSE order_base_2_from(n, k + 1)

order_base_2(n) == order_base_2_from(n, 0)

(* blksize_bits(size): order_base_2(size >> SECTOR_SHIFT) + SECTOR_SHIFT,  *)
(* for a u32. The loop of earlier kernels (bits = 8; do { bits++;          *)
(* size >>= 1; } while (size > 256)) gives the same for 0 and for the      *)
(* powers of two, the only sizes ntfs_init_from_boot passes.               *)
blksize_bits(size) == order_base_2(Shr64(size, 9)) + 9

(* How the machine shifts a 32-bit value by a count outside 0..31, which C  *)
(* leaves undefined: "mask" uses the count modulo 32 (x86, arm64), "zero"   *)
(* uses its low byte and yields 0 from 32 on (32-bit ARM).                  *)
ShiftKinds == {"mask", "zero"}

(* (u32)(x << n) for a 32-bit x and an int n *)
Shl32(x, n, kind) ==
    IF n \in 0 .. 31 THEN Trunc32(Shl64(x, n))
    ELSE IF kind = "mask" THEN Trunc32(Shl64(x, n % 32))
    ELSE IF (n % 256) < 32 THEN Trunc32(Shl64(x, n % 256))
    ELSE Zero64

(* the value of a byte read as s8 *)
S8(b) == IF b >= 128 THEN b - 256 ELSE b

SECTOR_SIZE == 512
MAXIMUM_BYTES_PER_MFT == 4096

(* true_sectors_per_clst(boot); sectors_per_clusters is a u8 *)
true_sectors_per_clst(boot, kind) ==
    IF boot.sectors_per_clusters <= 128
    THEN U64(boot.sectors_per_clusters)
    ELSE Shl32(U64(1), 0 - boot.sectors_per_clusters, kind)

(* what ntfs_init_from_boot leaves: its return value ("fault" when it does   *)
(* not return), the check it left at, whether it set SB_RDONLY, and the      *)
(* geometry written into sbi so far                                          *)
BootNone ==
    [err |-> "none", at |-> "none", raw |-> FALSE, new_rec |-> FALSE,
     sector_size |-> Zero64, sct_per_clst |-> Zero64,
     cluster_size |-> Zero64, cluster_bits |-> 0,
     record_size |-> Zero64, index_size |-> Zero64,
     fs_size |-> Zero64, dev_size |-> Zero64, nbits |-> Zero64]

BootOut(r, e, where) == [r EXCEPT !.err = e, !.at = where]

RawVolume_Never(dev_size, fs_size) == FALSE

(* if (dev_size < fs_size): "RAW NTFS volume ... Mount in read-only" *)
RawVolume(dev_size, fs_size) == Lt64(dev_size, fs_size)

(* the second half of ntfs_init_from_boot: from 'sbi->sector_size = ...' on *)
BootGeometry(boot, sector_size, dev_size, env, boot_sector_size, sct_per_clst) ==
    LET rs   == S8(boot.record_size)
        is   == S8(boot.index_size)
        bss  == U64(boot_sector_size)
        sector_bits == blksize_bits(bss)
        sectors == boot.sectors_per_volume
        fs_size == Shl64(Add64(sectors, U64(1)), sector_bits)
        dev  == IF boot_sector_size # sector_size
                THEN Add64(dev_size, U64(sector_size - 1))
                ELSE dev_size
        cluster_size == Trunc32(Mul64(bss, sct_per_clst))
        cluster_bits == blksize_bits(cluster_size)
        r1   == [BootNone EXCEPT !.sector_size = bss,
                                 !.sct_per_clst = sct_per_clst,
                                 !.fs_size = fs_size, !.dev_size = dev,
                                 !.cluster_size = cluster_size,
                                 !.cluster_bits = cluster_bits]
        record_size == IF rs < 0
                       THEN Shl32(U64(1), 0 - rs, env.kind)
                       ELSE Trunc32(Shl64(U64(rs), cluster_bits))
        r2   == [r1 EXCEPT !.record_size = record_size]
        index_size == IF is < 0
                      THEN Shl32(U64(1), 0 - is, env.kind)
                      ELSE Trunc32(Shl64(U64(is), cluster_bits))
        volume_size == Shl64(sectors, sector_bits)
        raw  == RawVolume(dev, fs_size)
        r3   == [r2 EXCEPT !.index_size = index_size, !.raw = raw]
        clusters == Shr64(volume_size, cluster_bits)
    IN  IF Lt64(cluster_size, bss) THEN BootOut(r1, "-EINVAL", "cluster_size")
        ELSE IF Lt64(U64(MAXIMUM_BYTES_PER_MFT), record_size)
             THEN BootOut(r2, "-EINVAL", "record_max")
        ELSE IF Shr64(clusters, 32) # Zero64
             THEN BootOut(r3, "-EINVAL", "clusters")
        ELSE IF ~ env.alloc
             THEN BootOut([r3 EXCEPT !.nbits = clusters], "-ENOMEM", "new_rec")
        ELSE IF record_size = Zero64
             THEN \* ntfs_alloc(0, 1) gives no memory to write to: the write
                  \* of rec->rhdr.sign faults and the call does not return
                  BootOut([r3 EXCEPT !.new_rec = TRUE, !.nbits = clusters],
                          "fault", "new_rec_write")
        ELSE BootOut([r3 EXCEPT !.new_rec = TRUE, !.nbits = clusters], "0", "done")

(* ntfs_init_from_boot(sb, sector_size, dev_size) on the boot sector 'boot'; *)
(* env: whether the read and the allocation succeed, and the shift kind      *)
ntfs_init_from_boot(boot, sector_size, dev_size, env) ==
    LET boot_sector_size == boot.bytes_per_sector[2] * 256
        sct_per_clst == true_sectors_per_clst(boot, env.kind)
        rs == S8(boot.record_size)
        is == S8(boot.index_size)
    IN  IF ~ env.bread THEN BootOut(BootNone, "-EIO", "bread")
        ELSE IF ~ boot.system_id THEN BootOut(BootNone, "-EINVAL", "system_id")
        ELSE IF \/ boot.bytes_per_sector[1] # 0
                \/ boot_sector_size < SECTOR_SIZE
                \/ ~ is_power_of2(U64(boot_sector_size))
             THEN BootOut(BootNone, "-EINVAL", "bytes_per_sector")
        ELSE IF ~ is_power_of2(sct_per_clst)
             THEN BootOut(BootNone, "-EINVAL", "sct_per_clst")
        ELSE IF ~ Lt64(Mul64(boot.mft_clst, sct_per_clst), boot.sectors_per_volume)
             THEN BootOut(BootNone, "-EINVAL", "mft_clst")
        ELSE IF ~ Lt64(Mul64(boot.mft2_clst, sct_per_clst), boot.sectors_per_volume)
             THEN BootOut(BootNone, "-EINVAL", "mft2_clst")
        ELSE IF \/ rs < 0 /\ Lt64(Shl32(U64(2), 0 - rs, env.kind), U64(SECTOR_SIZE))
                \/ rs >= 0 /\ ~ is_power_of2(U64(rs))
             THEN BootOut(BootNone, "-EINVAL", "record_size")
        ELSE IF \/ is < 0 /\ Lt64(Shl32(U64(2), 0 - is, env.kind), U64(SECTOR_SIZE))
                \/ is >= 0 /\ ~ is_power_of2(U64(is))
             THEN BootOut(BootNone, "-EINVAL", "index_size")
        ELSE BootGeometry(boot, sector_size, dev_size, env,
                          boot_sector_size, sct_per_clst)

----------------------------------------------------------------------------
(* SpecBoot: ntfs_init_from_boot applied to boot sectors.                   *)

Bytes == 0 .. 255

(* a well-formed boot sector: 512-byte sectors, 8 sectors per cluster,      *)
(* 1024-byte records (-10), one cluster per index record                    *)
GoodBoot ==
    [system_id |-> TRUE, bytes_per_sector |-> <<0, 2>>,
     sectors_per_clusters |-> 8,
     mft_clst |-> U64(4), mft2_clst |-> U64(8),
     sectors_per_volume |-> U64(1000000),
     record_size |-> 246, index_size |-> 1]

GoodEnv == [bread |-> TRUE, alloc |-> TRUE, kind |-> "mask"]

(* the 0xffff... of a u64 *)
Max64 == [i \in Limbs |-> Limb - 1]

BootCall(boot, sector_size, dev_size, env) ==
    [boot |-> boot, sector_size |-> sector_size, dev_size |-> dev_size,
     env |-> env]

ClusterNumbers ==
    {U64(0), U64(4), U64(124999), U64(125000), U64(999999), U64(1000000),
     Pow2(32), Pow2(61), Pow2(63), Max64}

SectorCounts == {U64(0), U64(1), U64(1000000), Pow2(41), Pow2(63)}

DevSizes ==
    {U64(0), U64(511999999), U64(512000000), U64(512000511), U64(512000512),
     U64(512000513), Pow2(40), Pow2(63)}

(* the calls made: each family varies some fields of the good call *)
BootCalls ==
    { BootCall([GoodBoot EXCEPT !.sectors_per_clusters = spc,
                                !.bytes_per_sector = <<0, b1>>],
               512, Pow2(40), [GoodEnv EXCEPT !.kind = k]) :
        spc \in Bytes, b1 \in {2, 16, 128}, k \in ShiftKinds }
    \cup
    { BootCall([GoodBoot EXCEPT !.bytes_per_sector = <<b0, b1>>],
               512, Pow2(40), GoodEnv) :
        b0 \in {0, 1}, b1 \in Bytes }
    \cup
    { BootCall([GoodBoot EXCEPT !.record_size = rs, !.index_size = is,
                                !.mft_clst = Zero64, !.mft2_clst = Zero64,
                                !.sectors_per_clusters = spc],
               512, Pow2(40), [GoodEnv EXCEPT !.kind = k]) :
        rs \in Bytes, is \in {1, 246}, spc \in {1, 8, 234, 244},
        k \in ShiftKinds }
    \cup
    { BootCall([GoodBoot EXCEPT !.index_size = is,
                                !.mft_clst = Zero64, !.mft2_clst = Zero64,
                                !.sectors_per_clusters = spc],
               512, Pow2(40), [GoodEnv EXCEPT !.kind = k]) :
        is \in Bytes, spc \in {8, 234}, k \in ShiftKinds }
    \cup
    { BootCall([GoodBoot EXCEPT !.mft_clst = m1, !.mft2_clst = m2,
                                !.sectors_per_volume = n,
                                !.sectors_per_clusters = spc],
               512, Pow2(63), GoodEnv) :
        m1 \in ClusterNumbers, m2 \in ClusterNumbers, n \in SectorCounts,
        spc \in {1, 2, 8} }
    \cup
    { BootCall([GoodBoot EXCEPT !.bytes_per_sector = <<0, b1>>,
                                !.sectors_per_volume = n],
               ss, dev, [GoodEnv EXCEPT !.alloc = al]) :
        b1 \in {2, 16}, n \in {U64(1000000), U64(125000), Pow2(41)},
        ss \in {512, 4096}, dev \in DevSizes, al \in BOOLEAN }
    \cup
    { BootCall([GoodBoot EXCEPT !.system_id = id], 512, Pow2(40),
               [GoodEnv EXCEPT !.bread = rd]) :
        id \in BOOLEAN, rd \in BOOLEAN }

BootVolumes(call) ==
    [v \in {1} |-> [pc |-> "boot", call |-> call, out |-> BootNone]]

InitBoot ==
    /\ nres = 0
    /\ s_shared = ResidentRegistry(nres)
    /\ s_shared_lock = 0
    /\ mem = ResidentHeap(nres)
    /\ hist = ResidentHist(nres)
    /\ ncalls = 0
    /\ cl = [c \in Clients |-> NULL]
    /\ last = NoCall
    /\ thr = IdleThreads
    /\ \E call \in BootCalls : vol = BootVolumes(call)

(* err = ntfs_init_from_boot(sb, sector_size, dev_size) *)
BootParse(v) ==
    /\ vol[v].pc = "boot"
    /\ vol' = [vol EXCEPT ![v].pc = "parsed",
                          ![v].out = ntfs_init_from_boot(vol[v].call.boot,
                                                         vol[v].call.sector_size,
                                                         vol[v].call.dev_size,
                                                         vol[v].call.env)]
    /\ UNCHANGED <<s_shared, s_shared_lock, mem, nres, hist, ncalls, cl,
                   last, thr>>

NextBoot == \E v \in {1} : BootParse(v)

SpecBoot == InitBoot /\ [][NextBoot]_vars

----------------------------------------------------------------------------
(* Spec: volumes mount (ntfs_fill_super, step by step) and unmount.         *)

Vols == {1}                 \* the volume whose mount is followed step by step
Peers == {1}                \* other volumes: only their registry calls are seen
ResidentChoices == {NSlots - 2, NSlots - 1, NSlots}
(* $UpCase tables on the devices being mounted; <<2, 2>> is the first       *)
(* resident's table.                                                        *)
UpcaseBytes == 2            \* stands for 0x10000 * sizeof(short)
DiskTables == { <<1, 0>>, <<2, 2>> }

Handles == {"VOL", "MIRR", "LOG", "MFT", "BADCLUS", "BITMAP", "ATTRDEF",
            "UPCASE", "SECURE", "REPARSE", "OBJID", "ROOT"}

(* errors that come back from the collaborators (ntfs_iget5, wnd_init, ...) *)
ExtErrs == {"-EIO"}

NoSb ==
    [pc |-> "unmounted",
     s_fs_info |-> FALSE, s_root |-> FALSE, rdonly |-> FALSE, req_ro |-> FALSE,
     force |-> FALSE, need_replay |-> FALSE, dirty |-> FALSE, ntfs3 |-> FALSE,
     new_rec |-> FALSE, rejected |-> <<>>,
     def_table |-> FALSE, upcase |-> NULL, was_upcase |-> NULL,
     mft_bitmap |-> FALSE, used_bitmap |-> FALSE, ni |-> {},
     inode |-> "NULL", ret |-> "none",
     dev_short |-> FALSE, boot_valid |-> FALSE,
     log |-> <<>>, acq |-> <<>>, tear |-> <<>>, nput |-> 0,
     gets |-> [h \in Handles |-> 0], puts |-> [h \in Handles |-> 0]]

L(r, ev) == [r EXCEPT !.log = Append(@, ev)]

(* the resources of sbi in the order ntfs_fill_super obtained them *)
Acq(r, res) == [r EXCEPT !.acq = Append(@, res)]
(* inode = ntfs_iget5(...) succeeded *)
Iget(r, h) == [r EXCEPT !.gets[h] = @ + 1, !.inode = h]
(* iput(inode): nothing on NULL *)
Iput(r, h) == IF h = "NULL" THEN r ELSE [r EXCEPT !.puts[h] = @ + 1]

(* ntfs_free(ntfs_put_shared(sbi->upcase)) *)
PutUpcase_SkipRegistry(reg, m, h, p) ==
    [reg |-> reg, mem |-> ntfs_free(m, p), hist |-> HistFree(h, m, p)]

PutUpcase(reg, m, h, p) ==
    LET r == ntfs_put_shared(reg, p)
    IN  [reg  |-> r.reg,
         mem  |-> ntfs_free(m, r.ret),
         hist |-> HistFree(HistRel(h, p), m, r.ret)]

(* if (sbi->X.ni) iput(&sbi->X.ni->vfs_inode) *)
PutNi(r, h) ==
    IF h \in r.ni
    THEN [r EXCEPT !.puts[h] = @ + 1, !.tear = Append(@, "iput_" \o h)]
    ELSE r

T(r, ev) == [r EXCEPT !.tear = Append(@, ev)]

put_ntfs_vol_HandlesFirst(r) ==
    LET a == T(T(T(r, "free_new_rec"), "put_upcase"), "free_def_table")
        c == PutNi(PutNi(PutNi(PutNi(PutNi(a, "MFT"), "SECURE"), "REPARSE"),
                         "OBJID"), "VOL")
        b == T(T(c, "wnd_close_mft"), "wnd_close_used")
        d == T(T(T(T(b, "update_mftmirr"), "indx_clear"), "free_compress"),
               "clear_mount_options")
    IN  [T(d, "free_sbi") EXCEPT
            !.new_rec = FALSE, !.upcase = NULL, !.def_table = FALSE,
            !.mft_bitmap = FALSE, !.used_bitmap = FALSE, !.ni = {},
            !.force = FALSE, !.need_replay = FALSE, !.dirty = FALSE,
            !.ntfs3 = FALSE, !.inode = "NULL",
            !.nput = @ + 1]

put_ntfs_vol_VolumeFirst(r) ==
    LET a == T(T(T(r, "free_new_rec"), "put_upcase"), "free_def_table")
        b == T(T(a, "wnd_close_mft"), "wnd_close_used")
        c == PutNi(PutNi(PutNi(PutNi(PutNi(b, "VOL"), "MFT"), "SECURE"),
                         "REPARSE"), "OBJID")
        d == T(T(T(T(c, "update_mftmirr"), "indx_clear"), "free_compress"),
               "clear_mount_options")
    IN  [T(d, "free_sbi") EXCEPT
            !.new_rec = FALSE, !.upcase = NULL, !.def_table = FALSE,
            !.mft_bitmap = FALSE, !.used_bitmap = FALSE, !.ni = {},
            !.force = FALSE, !.need_replay = FALSE, !.dirty = FALSE,
            !.ntfs3 = FALSE, !.inode = "NULL",
            !.nput = @ + 1]

(* put_ntfs(sbi): the volume record afterwards (sbi is gone). *)
put_ntfs_vol(r) ==
    LET a == T(T(T(r, "free_new_rec"), "put_upcase"), "free_def_table")
        b == T(T(a, "wnd_close_mft"), "wnd_close_used")
        c == PutNi(PutNi(PutNi(PutNi(PutNi(b, "MFT"), "SECURE"), "REPARSE"),
                         "OBJID"), "VOL")
        d == T(T(T(T(c, "update_mftmirr"), "indx_clear"), "free_compress"),
               "clear_mount_options")
    IN  [T(d, "free_sbi") EXCEPT
            !.new_rec = FALSE, !.upcase = NULL, !.def_table = FALSE,
            !.mft_bitmap = FALSE, !.used_bitmap = FALSE, !.ni = {},
            !.force = FALSE, !.need_replay = FALSE, !.dirty = FALSE,
            !.ntfs3 = FALSE, !.inode = "NULL",
            !.nput = @ + 1]

(* goto out: iput(inode); drop s_root; put_ntfs(sbi); s_fs_info = NULL;     *)
(* return err.                                                              *)
GotoOutFrom_NoTeardown(v, r, e, m) ==
    /\ vol' = [vol EXCEPT ![v] = [L(Iput(r, r.inode), "out") EXCEPT
                                     !.pc = "failed", !.ret = e]]
    /\ s_shared' = s_shared
    /\ mem' = m
    /\ hist' = hist

(* m is the heap at that point. Once it has returned the super block is   *)
(* given up, so its flags are not kept.                                     *)
GotoOutFrom(v, r, e, m) ==
    LET r1 == L(Iput(r, r.inode), "out")
        r2 == [r1 EXCEPT !.s_root = FALSE]
        pu == PutUpcase(s_shared, m, hist, r2.upcase)
        r3 == put_ntfs_vol(L(r2, "put_ntfs"))
    IN  /\ vol' = [vol EXCEPT ![v] = [r3 EXCEPT !.s_fs_info = FALSE,
                                                 !.rdonly = FALSE, !.req_ro = FALSE,
                                                 !.pc = "failed", !.ret = e]]
        /\ s_shared' = pu.reg
        /\ mem' = pu.mem
        /\ hist' = pu.hist

GotoOut(v, r, e) == GotoOutFrom(v, r, e, mem)

Goto(v, r, pc) ==
    /\ vol' = [vol EXCEPT ![v] = [r EXCEPT !.pc = pc]]
    /\ UNCHANGED <<s_shared, mem, hist>>

(* another volume's mount reaches its ntfs_set_shared *)
PeerAcquire(c) ==
    /\ \E tbl \in DiskTables, a \in Addr : Acquire(c, tbl, a)
    /\ UNCHANGED <<ncalls, s_shared_lock, nres, last, thr, vol>>

(* another volume's put_ntfs reaches its ntfs_put_shared *)
PeerRelease(c) ==
    /\ Release(c)
    /\ UNCHANGED <<ncalls, s_shared_lock, nres, last, thr, vol>>

Init ==
    /\ nres \in ResidentChoices
    /\ s_shared = ResidentRegistry(nres)
    /\ s_shared_lock = 0
    /\ mem = ResidentHeap(nres)
    /\ hist = ResidentHist(nres)
    /\ ncalls = 0
    /\ cl = [c \in Clients |-> NULL]
    /\ last = NoCall
    /\ thr = IdleThreads
    /\ vol = [v \in Vols |-> NoSb]

(* mount_bdev calls ntfs_fill_super with the requested flags in sb->s_flags; *)
(* sbi = ntfs_alloc(...); sb->s_fs_info = sbi.                               *)
FS_Alloc(v) ==
    /\ vol[v].pc \in {"unmounted", "failed"}
    /\ \E ro \in BOOLEAN, ok \in BOOLEAN :
         LET r == L([NoSb EXCEPT !.req_ro = ro, !.rdonly = ro], "alloc")
         IN  IF ok
             THEN Goto(v, [r EXCEPT !.s_fs_info = TRUE], "options")
             ELSE Goto(v, [r EXCEPT !.ret = "-ENOMEM"], "failed")
    /\ UNCHANGED <<ncalls, s_shared_lock, nres, cl, last, thr>>

(* err = ntfs_parse_options(sb, data, silent, &sbi->options) *)
FS_Options(v) ==
    /\ vol[v].pc = "options"
    /\ LET r == L(vol[v], "options")
       IN  \/ GotoOut(v, r, "-EINVAL")
           \/ \E f \in BOOLEAN : Goto(v, [r EXCEPT !.force = f], "boot")
    /\ UNCHANGED <<ncalls, s_shared_lock, nres, cl, last, thr>>

(* the device of the call, padded as the code pads it, is shorter than the *)
(* size the boot sector declares                                           *)
DevShort(call) ==
    LET bss == call.boot.bytes_per_sector[2] * 256
        fs  == Shl64(Add64(call.boot.sectors_per_volume, U64(1)),
                     blksize_bits(U64(bss)))
        dev == IF bss # call.sector_size
               THEN Add64(call.dev_size, U64(call.sector_size - 1))
               ELSE call.dev_size
    IN  Lt64(dev, fs)

(* the call succeeds on a device that is long enough *)
OtherwiseValid(call) ==
    ntfs_init_from_boot(call.boot, call.sector_size, Pow2(63),
                        call.env).err = "0"

(* the boot sectors and devices the mounts meet: a well-formed boot sector *)
(* on an ample device, on a device shorter than the volume, on a device    *)
(* with 4096-byte sectors that is long enough only with the padding, one   *)
(* with too many clusters on a short device, a foreign boot sector, a      *)
(* failing read and a failing allocation; the super block remembers of the *)
(* call whether the device was short and whether the rest was valid        *)
MountCalls ==
    { BootCall(GoodBoot, 512, Pow2(40), GoodEnv),
      BootCall(GoodBoot, 512, U64(512000000), GoodEnv),
      BootCall(GoodBoot, 4096, U64(512000000), GoodEnv),
      BootCall([GoodBoot EXCEPT !.sectors_per_volume = Pow2(41),
                                !.sectors_per_clusters = 1],
               512, U64(512000000), GoodEnv),
      BootCall([GoodBoot EXCEPT !.system_id = FALSE], 512, Pow2(40), GoodEnv),
      BootCall(GoodBoot, 512, Pow2(40), [GoodEnv EXCEPT !.bread = FALSE]),
      BootCall(GoodBoot, 512, U64(512000000), [GoodEnv EXCEPT !.alloc = FALSE]) }

(* what ntfs_init_from_boot does with each of them *)
MountBoots ==
    { [out |-> ntfs_init_from_boot(call.boot, call.sector_size,
                                   call.dev_size, call.env),
       dev_short |-> DevShort(call),
       boot_valid |-> OtherwiseValid(call)] : call \in MountCalls }

(* err = ntfs_init_from_boot(sb, logical block size, device size): it may  *)
(* set SB_RDONLY, and on success the record template exists.               *)
FS_Boot(v) ==
    /\ vol[v].pc = "boot"
    /\ \E m \in MountBoots :
         LET r == [L(vol[v], "boot") EXCEPT !.dev_short = m.dev_short,
                                            !.boot_valid = m.boot_valid,
                                            !.rdonly = @ \/ m.out.raw]
         IN  IF m.out.err = "0"
             THEN Goto(v, [Acq(r, "new_rec") EXCEPT !.new_rec = TRUE], "compress")
             ELSE GotoOut(v, r, m.out.err)
    /\ UNCHANGED <<ncalls, s_shared_lock, nres, cl, last, thr>>

(* the LZNT buffers, when the cluster size allows compression *)
FS_Compress(v) ==
    /\ vol[v].pc = "compress"
    /\ LET r == L(vol[v], "compress")
       IN  \/ Goto(v, r, "volume")
           \/ GotoOut(v, r, "-ENOMEM")
    /\ UNCHANGED <<ncalls, s_shared_lock, nres, cl, last, thr>>

(* Load $Volume: label, then the mandatory volume information *)
FS_Volume(v) ==
    /\ vol[v].pc = "volume"
    /\ LET r == L(vol[v], "volume")
       IN  \/ \E e \in ExtErrs : GotoOut(v, r, e)
           \/ GotoOut(v, Iget(r, "VOL"), "-EINVAL")
           \/ \E d \in BOOLEAN, n3 \in BOOLEAN :
                Goto(v, [Acq(Iget(r, "VOL"), "VOL") EXCEPT !.dirty = d, !.ntfs3 = n3,
                            !.ni = @ \cup {"VOL"}, !.inode = "NULL"], "mftmirr")
    /\ UNCHANGED <<ncalls, s_shared_lock, nres, cl, last, thr>>

(* Load $MFTMirr to estimate recs_mirr; iput(inode) leaves 'inode' set *)
FS_MftMirr(v) ==
    /\ vol[v].pc = "mftmirr"
    /\ LET r == L(vol[v], "mftmirr")
       IN  \/ \E e \in ExtErrs : GotoOut(v, r, e)
           \/ Goto(v, Iput(Iget(r, "MIRR"), "MIRR"), "logfile")
    /\ UNCHANGED <<ncalls, s_shared_lock, nres, cl, last, thr>>

(* Load $LogFile and replay it *)
FS_LogFile(v) ==
    /\ vol[v].pc = "logfile"
    /\ LET r == L(vol[v], "logfile")
       IN  \/ \E e \in ExtErrs : GotoOut(v, [r EXCEPT !.inode = "NULL"], e)
           \/ \E e \in ExtErrs : GotoOut(v, L(Iget(r, "LOG"), "replay"), e)
           \/ \E nr \in BOOLEAN :
                LET r1 == L(L(Iget(r, "LOG"), "replay"), "replay_ok")
                IN  Goto(v, [Iput(r1, "LOG") EXCEPT !.need_replay = nr,
                                                    !.inode = "NULL"], "gate")
    /\ UNCHANGED <<ncalls, s_shared_lock, nres, cl, last, thr>>

(* the two checks after the replay *)
GateRejects_IgnoreForce(need_replay, dirty, is_ro, force) ==
    IF need_replay THEN ~ is_ro
    ELSE IF dirty THEN ~ is_ro
    ELSE FALSE

GateRejects_NoReplayTest(need_replay, dirty, is_ro, force) ==
    dirty /\ ~ is_ro /\ ~ force

GateRejects_Never(need_replay, dirty, is_ro, force) == FALSE

GateRejects(need_replay, dirty, is_ro, force) ==
    IF need_replay THEN ~ is_ro
    ELSE IF dirty THEN ~ is_ro /\ ~ force
    ELSE FALSE

FS_Gate(v) ==
    /\ vol[v].pc = "gate"
    /\ LET r == L(vol[v], "gate")
       IN  IF GateRejects(r.need_replay, r.dirty, r.rdonly, r.force)
           THEN GotoOut(v, [r EXCEPT !.rejected =
                               <<[need_replay |-> r.need_replay, dirty |-> r.dirty,
                                  rdonly |-> r.rdonly, req_ro |-> r.req_ro,
                                  force |-> r.force]>>], "-EINVAL")
           ELSE Goto(v, L(r, "gate_ok"), "mft")
    /\ UNCHANGED <<ncalls, s_shared_lock, nres, cl, last, thr>>

(* Load $MFT: wnd_init of the record bitmap, ni_load_all_mi, sbi->mft.ni *)
FS_Mft(v) ==
    /\ vol[v].pc = "mft"
    /\ LET r == L(vol[v], "mft")
       IN  \/ \E e \in ExtErrs : GotoOut(v, [r EXCEPT !.inode = "NULL"], e)
           \/ \E e \in ExtErrs : GotoOut(v, L(Iget(r, "MFT"), "wnd_init_mft"), e)
           \/ \E e \in ExtErrs :
                GotoOut(v, [Acq(L(Iget(r, "MFT"), "wnd_init_mft"), "mft_bitmap")
                              EXCEPT !.mft_bitmap = TRUE], e)
           \/ Goto(v, [Acq(Acq(L(Iget(r, "MFT"), "wnd_init_mft"),
                               "mft_bitmap"), "MFT")
                         EXCEPT !.mft_bitmap = TRUE, !.ni = @ \cup {"MFT"}],
                   "badclus")
    /\ UNCHANGED <<ncalls, s_shared_lock, nres, cl, last, thr>>

(* Load $BadClus; iput(inode) leaves 'inode' set *)
FS_BadClus(v) ==
    /\ vol[v].pc = "badclus"
    /\ LET r == L(vol[v], "badclus")
       IN  \/ \E e \in ExtErrs : GotoOut(v, [r EXCEPT !.inode = "NULL"], e)
           \/ Goto(v, Iput(Iget(r, "BADCLUS"), "BADCLUS"), "bitmap")
    /\ UNCHANGED <<ncalls, s_shared_lock, nres, cl, last, thr>>

(* Load $Bitmap: size checks, wnd_init of the cluster bitmap, iput(inode)   *)
(* without clearing 'inode'.                                                *)
FS_Bitmap(v) ==
    /\ vol[v].pc = "bitmap"
    /\ LET r == L(vol[v], "bitmap")
       IN  \/ \E e \in ExtErrs : GotoOut(v, [r EXCEPT !.inode = "NULL"], e)
           \/ GotoOut(v, Iget(r, "BITMAP"), "-EINVAL")
           \/ \E e \in ExtErrs :
                GotoOut(v, L(Iget(r, "BITMAP"), "wnd_init_used"), e)
           \/ LET r1 == [Acq(L(Iget(r, "BITMAP"), "wnd_init_used"),
                               "used_bitmap")
                           EXCEPT !.used_bitmap = TRUE]
              IN  Goto(v, Iput(r1, "BITMAP"), "zone")
    /\ UNCHANGED <<ncalls, s_shared_lock, nres, cl, last, thr>>

(* err = ntfs_refresh_zone(sbi) *)
FS_Zone(v) ==
    /\ vol[v].pc = "zone"
    /\ LET r == L(vol[v], "zone")
       IN  \/ \E e \in ExtErrs : GotoOut(v, r, e)
           \/ Goto(v, r, "attrdef")
    /\ UNCHANGED <<ncalls, s_shared_lock, nres, cl, last, thr>>

(* Load $AttrDef into sbi->def_table; iput(inode) leaves 'inode' set *)
FS_AttrDef(v) ==
    /\ vol[v].pc = "attrdef"
    /\ LET r == L(vol[v], "attrdef")
       IN  \/ \E e \in ExtErrs : GotoOut(v, [r EXCEPT !.inode = "NULL"], e)
           \/ \E e \in {"-EINVAL", "-ENOMEM"} : GotoOut(v, Iget(r, "ATTRDEF"), e)
           \/ \E e \in ExtErrs \cup {"-EINVAL"} :
                GotoOut(v, [Acq(Iget(r, "ATTRDEF"), "def_table")
                              EXCEPT !.def_table = TRUE], e)
           \/ Goto(v, Iput([Acq(Iget(r, "ATTRDEF"), "def_table")
                              EXCEPT !.def_table = TRUE],
                           "ATTRDEF"), "upcase")
    /\ UNCHANGED <<ncalls, s_shared_lock, nres, cl, last, thr>>

(* Load $UpCase, offer it to the registry, keep what comes back *)
FS_UpCase(v) ==
    /\ vol[v].pc = "upcase"
    /\ LET r == L(vol[v], "upcase")
       IN  \/ \E e \in ExtErrs : GotoOut(v, [r EXCEPT !.inode = "NULL"], e)
           \/ \E e \in {"-EINVAL", "-ENOMEM"} : GotoOut(v, Iget(r, "UPCASE"), e)
           \/ \E tbl \in DiskTables, a \in FreeAddrs(mem) :
                LET m1 == [mem EXCEPT ![a] = tbl]
                    r1 == [Acq(Iget(r, "UPCASE"), "upcase") EXCEPT !.upcase = a]
                IN  \/ \E e \in ExtErrs : GotoOutFrom(v, r1, e, m1)
                    \/ LET sh   == ntfs_set_shared(s_shared, m1, a, UpcaseBytes)
                           keep == UpcaseKept(sh.ret, a)
                           drop == UpcaseDropped(sh.ret, a)
                           r2   == [L(r1, "set_shared") EXCEPT
                                      !.upcase = keep, !.was_upcase = keep,
                                      !.inode = "NULL"]
                       IN  /\ vol' = [vol EXCEPT ![v] =
                                        [Iput(r2, "UPCASE") EXCEPT !.pc = "secure"]]
                           /\ s_shared' = sh.reg
                           /\ mem' = ntfs_free(m1, drop)
                           /\ hist' = HistFree(HistAcq(hist, sh.ret), m1, drop)
    /\ UNCHANGED <<ncalls, s_shared_lock, nres, cl, last, thr>>

(* if (is_ntfs3(sbi)) ntfs_security_init: its failure is fatal; when it    *)
(* returns 0 it has kept $Secure in sbi->security.ni, or has kept nothing  *)
FS_Secure(v) ==
    /\ vol[v].pc = "secure"
    /\ IF ~ vol[v].ntfs3
       THEN Goto(v, vol[v], "root")
       ELSE LET r == L(vol[v], "secure")
            IN  \/ \E e \in ExtErrs : GotoOut(v, r, e)
                \/ Goto(v, r, "extend")
                \/ Goto(v, [Acq(r, "SECURE") EXCEPT !.ni = @ \cup {"SECURE"},
                                     !.gets["SECURE"] = @ + 1], "extend")
    /\ UNCHANGED <<ncalls, s_shared_lock, nres, cl, last, thr>>

FS_Extend_Fatal(v) ==
    /\ vol[v].pc = "extend"
    /\ LET r == L(vol[v], "extend")
       IN  \/ GotoOut(v, L(r, "extend_err"), "-EINVAL")
           \/ Goto(v, r, "reparse")
    /\ UNCHANGED <<ncalls, s_shared_lock, nres, cl, last, thr>>

(* ntfs_extend_init: on failure goto load_root; on success those of        *)
(* $Extend's children that were found ($Reparse, $ObjId, both or neither)   *)
(* are kept in sbi->reparse.ni and sbi->objid.ni, obtained in an order this *)
(* file does not fix                                                        *)
FS_Extend(v) ==
    /\ vol[v].pc = "extend"
    /\ LET r == L(vol[v], "extend")
       IN  \/ Goto(v, L(r, "extend_err"), "root")
           \/ Goto(v, r, "reparse")
           \/ \E only \in {"REPARSE", "OBJID"} :
                Goto(v, [Acq(r, only) EXCEPT !.ni = @ \cup {only},
                                             !.gets[only] = @ + 1], "reparse")
           \/ \E first \in {"REPARSE", "OBJID"} :
                LET second == IF first = "OBJID" THEN "REPARSE" ELSE "OBJID"
                IN  Goto(v, [Acq(Acq(r, first), second)
                               EXCEPT !.ni = @ \cup {"REPARSE", "OBJID"},
                                      !.gets["REPARSE"] = @ + 1,
                                      !.gets["OBJID"] = @ + 1], "reparse")
    /\ UNCHANGED <<ncalls, s_shared_lock, nres, cl, last, thr>>

(* ntfs_reparse_init: on failure goto load_root *)
FS_Reparse(v) ==
    /\ vol[v].pc = "reparse"
    /\ LET r == L(vol[v], "reparse")
       IN  \/ Goto(v, L(r, "reparse_err"), "root")
           \/ Goto(v, r, "objid")
    /\ UNCHANGED <<ncalls, s_shared_lock, nres, cl, last, thr>>

(* ntfs_objid_init: on failure goto load_root, which follows anyway *)
FS_ObjId(v) ==
    /\ vol[v].pc = "objid"
    /\ LET r == L(vol[v], "objid")
       IN  \/ Goto(v, L(r, "objid_err"), "root")
           \/ Goto(v, r, "root")
    /\ UNCHANGED <<ncalls, s_shared_lock, nres, cl, last, thr>>

(* load_root: the root inode, then sb->s_root = d_make_root(inode);         *)
(* d_make_root drops the inode itself when it fails.                        *)
FS_Root(v) ==
    /\ vol[v].pc = "root"
    /\ LET r == L(vol[v], "root")
       IN  \/ \E e \in ExtErrs : GotoOut(v, [r EXCEPT !.inode = "NULL"], e)
           \/ GotoOut(v, Iput(L(Iget(r, "ROOT"), "d_make_root"), "ROOT"), "-EINVAL")
           \/ Goto(v, [L(Iget(r, "ROOT"), "d_make_root")
                         EXCEPT !.s_root = TRUE, !.ret = "0"], "mounted")
    /\ UNCHANGED <<ncalls, s_shared_lock, nres, cl, last, thr>>

(* unmount: the VFS drops the root dentry, then ntfs_put_super:            *)
(* ntfs_set_state(sbi, NTFS_DIRTY_CLEAR), put_ntfs(sbi), sync_blockdev.    *)
(* sb->s_fs_info is not cleared: it keeps pointing at the freed sbi.       *)
FS_PutSuper(v) ==
    /\ vol[v].pc = "mounted"
    /\ LET r  == [Iput(vol[v], "ROOT") EXCEPT !.s_root = FALSE]
           pu == PutUpcase(s_shared, mem, hist, r.upcase)
       IN  /\ vol' = [vol EXCEPT ![v] =
                       [L(put_ntfs_vol(L(L(r, "put_super"), "set_state")),
                          "sync_blockdev")
                          EXCEPT !.rdonly = FALSE, !.req_ro = FALSE,
                                 !.pc = "unmounted"]]
           /\ s_shared' = pu.reg
           /\ mem' = pu.mem
           /\ hist' = pu.hist
    /\ UNCHANGED <<ncalls, s_shared_lock, nres, cl, last, thr>>

Next ==
    \/ \E c \in Peers : PeerAcquire(c)
    \/ \E c \in Peers : PeerRelease(c)
    \/ \E v \in Vols :
        \/ FS_Alloc(v)
        \/ FS_Options(v)
        \/ FS_Boot(v)
        \/ FS_Compress(v)
        \/ FS_Volume(v)
        \/ FS_MftMirr(v)
        \/ FS_LogFile(v)
        \/ FS_Gate(v)
        \/ FS_Mft(v)
        \/ FS_BadClus(v)
        \/ FS_Bitmap(v)
        \/ FS_Zone(v)
        \/ FS_AttrDef(v)
        \/ FS_UpCase(v)
        \/ FS_Secure(v)
        \/ FS_Extend(v)
        \/ FS_Reparse(v)
        \/ FS_ObjId(v)
        \/ FS_Root(v)
        \/ FS_PutSuper(v)

Spec == Init /\ [][Next]_vars

----------------------------------------------------------------------------
(* Properties of the mount and unmount (Spec) *)

(* volumes that use the buffer at p as their case table *)
VolHolders(p) ==
    Cardinality({ v \in Vols : vol[v].upcase = p })
      + Cardinality({ c \in Peers : cl[c] = p })
      + (IF p > MaxAddr THEN 1 ELSE 0)

(* C5: whatever mounts (complete, or failed at any step) and unmounts have  *)
(* happened, the count of every occupied slot is the number of volumes      *)
(* whose case table is the slot's buffer; a volume whose mount failed or    *)
(* that was unmounted holds none, so the counts are what they were before;  *)
(* a table is freed only when its last volume lets go: no occupied slot and *)
(* no volume points to freed memory, nothing is freed twice and no buffer   *)
(* is left without a volume.                                                *)
C5_CountsAreHolders ==
    /\ \A i \in Occupied(s_shared) :
          /\ s_shared[i].cnt = VolHolders(s_shared[i].ptr)
          /\ mem[s_shared[i].ptr] # <<>>
    /\ \A v \in Vols :
          /\ vol[v].upcase # NULL => mem[vol[v].upcase] # <<>>
          /\ vol[v].pc \in {"failed", "unmounted"} => vol[v].upcase = NULL
    /\ \A a \in Addr : mem[a] # <<>> => VolHolders(a) >= 1
    /\ \A a \in AllAddr : hist[a].dfree = 0

(* a mount that failed after the $UpCase step had shared the table of a    *)
(* volume that is still mounted                                            *)
C5_Witness ==
    \E v \in Vols, c \in Peers, i \in Slots :
        /\ vol[v].pc = "failed"
        /\ vol[v].was_upcase # NULL
        /\ vol[v].was_upcase = cl[c]
        /\ s_shared[i].ptr = cl[c]
        /\ s_shared[i].cnt = 1
        /\ hist[cl[c]].peak = 2

GateStep(v) == vol[v].pc = "gate" /\ vol'[v].pc # "gate"
GatePassed(v) == vol'[v].pc = "mft"
GateRefused(v) == vol'[v].pc = "failed" /\ vol'[v].ret = "-EINVAL"

(* C6 as stated: with the dirty flag set, a mount requested read-write     *)
(* without 'force' fails, a read-only request passes the gate, and with    *)
(* 'force' a read-write mount passes the gate.                             *)
C6_AsStated ==
    [][ \A v \in Vols : (GateStep(v) /\ vol[v].dirty) =>
          /\ (~ vol[v].force /\ ~ vol[v].req_ro) => GateRefused(v)
          /\ (~ vol[v].force /\ vol[v].req_ro) => GatePassed(v)
          /\ (vol[v].force /\ ~ vol[v].req_ro) => GatePassed(v) ]_vars

(* C6 (amended): with the dirty flag set, a mount that is read-write when  *)
(* it reaches the gate (requested read-write and not turned read-only by   *)
(* ntfs_init_from_boot) and has no 'force' fails with -EINVAL; a read-only *)
(* mount passes the gate; with 'force' a read-write mount passes the gate  *)
(* when the needs-replay flag is clear and is refused when it is set.      *)
C6_DirtyGate ==
    [][ \A v \in Vols : (GateStep(v) /\ vol[v].dirty) =>
          /\ (~ vol[v].force /\ ~ vol[v].rdonly) => GateRefused(v)
          /\ vol[v].rdonly => GatePassed(v)
          /\ (vol[v].force /\ ~ vol[v].rdonly /\ ~ vol[v].need_replay)
                => GatePassed(v)
          /\ (vol[v].force /\ ~ vol[v].rdonly /\ vol[v].need_replay)
                => GateRefused(v) ]_vars

(* the gate has refused a read-write mount of a dirty volume without force *)
C6_Witness ==
    \E v \in Vols :
        /\ vol[v].pc = "failed"
        /\ vol[v].rejected # <<>>
        /\ vol[v].rejected[1].dirty
        /\ ~ vol[v].rejected[1].need_replay
        /\ ~ vol[v].rejected[1].force
        /\ ~ vol[v].rejected[1].rdonly

(* C7: with the needs-replay flag set after the replay step, a read-write  *)
(* mount fails whether or not 'force' was given, and a read-only mount     *)
(* passes the gate.                                                        *)
C7_ReplayGate ==
    [][ \A v \in Vols : (GateStep(v) /\ vol[v].need_replay) =>
          /\ ~ vol[v].rdonly => GateRefused(v)
          /\ vol[v].rdonly => GatePassed(v) ]_vars

(* the gate has refused a read-write mount with 'force' because the        *)
(* journal was not replayed                                                *)
C7_Witness ==
    \E v \in Vols :
        /\ vol[v].pc = "failed"
        /\ vol[v].rejected # <<>>
        /\ vol[v].rejected[1].need_replay
        /\ vol[v].rejected[1].force
        /\ ~ vol[v].rejected[1].rdonly

(* the steps that trust the metadata *)
AfterGate == {"mft", "wnd_init_mft", "badclus", "bitmap", "wnd_init_used",
              "attrdef", "upcase", "root"}

(* C8: wherever $MFT, a bitmap allocator, $BadClus, $Bitmap, $AttrDef,     *)
(* $UpCase or the root has been started, the replay had returned success   *)
(* and the gate had passed before, in this order, and the flags of the     *)
(* volume are flags the gate accepts; a mount the gate refused has         *)
(* started none of them.                                                   *)
C8_GateBeforeMetadata ==
    \A v \in Vols :
        /\ \A k \in DOMAIN vol[v].log :
              vol[v].log[k] \in AfterGate =>
                 \E i, j \in 1 .. k :
                    /\ i < j
                    /\ j < k
                    /\ vol[v].log[i] = "replay_ok"
                    /\ vol[v].log[j] = "gate_ok"
        /\ ( /\ vol[v].s_fs_info
             /\ \E k \in DOMAIN vol[v].log : vol[v].log[k] \in AfterGate )
              => \/ vol[v].rdonly
                 \/ ~ vol[v].need_replay /\ (~ vol[v].dirty \/ vol[v].force)
        /\ vol[v].rejected # <<>> =>
              \A k \in DOMAIN vol[v].log : vol[v].log[k] \notin AfterGate

(* a read-only mount of a volume whose journal was not replayed went       *)
(* through the gate and loaded everything up to the root                   *)
C8_Witness ==
    \E v \in Vols :
        /\ vol[v].pc = "mounted"
        /\ vol[v].need_replay
        /\ vol[v].dirty

(* the step an event of the log belongs to, and the order of the steps *)
StepOf(ev) ==
    CASE ev \in {"replay", "replay_ok"} -> "logfile"
      [] ev = "gate_ok" -> "gate"
      [] ev = "wnd_init_mft" -> "mft"
      [] ev = "wnd_init_used" -> "bitmap"
      [] ev = "set_shared" -> "upcase"
      [] ev = "d_make_root" -> "root"
      [] ev = "extend_err" -> "extend"
      [] ev = "reparse_err" -> "reparse"
      [] ev = "objid_err" -> "objid"
      [] OTHER -> ev

BootOrder == <<"alloc", "options", "boot", "compress", "volume", "mftmirr",
               "logfile", "gate", "mft", "badclus", "bitmap", "zone",
               "attrdef", "upcase", "secure", "extend", "reparse", "objid",
               "root", "out", "put_ntfs">>

LoggedEvents ==
    {BootOrder[k] : k \in DOMAIN BootOrder}
        \cup {"replay", "replay_ok", "gate_ok", "wnd_init_mft", "wnd_init_used",
              "set_shared", "d_make_root", "extend_err", "reparse_err",
              "objid_err"}

RankTable ==
    [ev \in LoggedEvents |->
        CHOOSE k \in DOMAIN BootOrder : BootOrder[k] = StepOf(ev)]

Rank(ev) == RankTable[ev]

(* the events ntfs_put_super logs *)
UnmountEvents == {"put_super", "set_state", "sync_blockdev"}

(* what a mount leaves behind, for the super blocks vl *)
MountOutcome(vl) ==
    \A v \in Vols :
        /\ \A k \in 1 .. (Len(vl[v].log) - 1) :
              \/ vl[v].log[k + 1] \in UnmountEvents
              \/ Rank(vl[v].log[k]) <= Rank(vl[v].log[k + 1])
        /\ vl[v].pc = "failed" =>
              /\ vl[v].ret \in {"-EINVAL", "-ENOMEM", "-EIO"}
              /\ ~ vl[v].s_fs_info
              /\ ~ vl[v].s_root
              /\ Len(vl[v].log) > 1 =>
                    /\ vl[v].nput = 1
                    /\ vl[v].log[Len(vl[v].log)] = "put_ntfs"
                    /\ vl[v].log[Len(vl[v].log) - 1] = "out"
        /\ vl[v].pc \notin {"failed", "unmounted"} => vl[v].nput = 0
        /\ vl[v].pc = "mounted" => vl[v].ret = "0"
        /\ (vl[v].ret = "0" /\ vl[v].pc # "unmounted") =>
              /\ vl[v].pc = "mounted"
              /\ vl[v].s_root
              /\ vl[v].s_fs_info

(* C9: a mount that failed at a step after the allocation of the volume    *)
(* state ran no step after the failing one (the log ends with that step,   *)
(* 'out' and the teardown), ran put_ntfs exactly once, returned an error   *)
(* and left neither s_fs_info nor a root; no step is logged out of its     *)
(* place; success is returned only with the root installed.                *)
C9_NoPartialMount ==
    [][ /\ MountOutcome(vol')
        /\ \A v \in Vols :
             (vol'[v].pc = "failed" /\ vol[v].pc # "failed" /\ vol[v].pc # "unmounted")
                => LET n == Len(vol'[v].log)
                   IN  /\ n >= 3
                       /\ StepOf(vol'[v].log[n - 2]) = vol[v].pc
                       /\ \A k \in 1 .. Len(vol[v].log) :
                             vol'[v].log[k] = vol[v].log[k] ]_vars

(* the root dentry could not be created: the last mandatory step failed *)
C9_Witness ==
    \E v \in Vols :
        /\ vol[v].pc = "failed"
        /\ Len(vol[v].log) >= 3
        /\ vol[v].log[Len(vol[v].log) - 2] = "d_make_root"

(* C10: when ntfs_fill_super has returned an error, every inode reference  *)
(* it took has been dropped exactly once.                                  *)
C10_ReleasedOnce ==
    \A v \in Vols :
        vol[v].pc = "failed" =>
            \A h \in Handles : vol[v].puts[h] = vol[v].gets[h]

----------------------------------------------------------------------------
(* Properties of the teardown (Spec) *)

(* in the sequence t every a stands before every b *)
Before(t, a, b) ==
    \A i \in DOMAIN t : \A j \in DOMAIN t :
        (t[i] = a /\ t[j] = b) => i < j

Has(t, a) == \E i \in DOMAIN t : t[i] = a

IputEvents == {"iput_MFT", "iput_SECURE", "iput_REPARSE", "iput_OBJID",
               "iput_VOL"}

(* C11: in put_ntfs the update of the MFT mirror comes before the iput of  *)
(* the $MFT inode.                                                         *)
C11_MirrorBeforeMft ==
    \A v \in Vols : Before(vol[v].tear, "update_mftmirr", "iput_MFT")

(* C12: put_ntfs releases the record template, the case table reference,   *)
(* the attribute-definition table and the two bitmaps, in this order and   *)
(* before any inode; of the inodes, security comes before reparse before   *)
(* object-ID, and $Volume is the last one.                                 *)
C12_TeardownOrder ==
    \A v \in Vols :
        vol[v].tear # <<>> =>
            /\ Len(vol[v].tear) >= 5
            /\ SubSeq(vol[v].tear, 1, 5) =
                  <<"free_new_rec", "put_upcase", "free_def_table",
                    "wnd_close_mft", "wnd_close_used">>
            /\ \A k \in DOMAIN vol[v].tear :
                  vol[v].tear[k] \in IputEvents => k > 5
            /\ Before(vol[v].tear, "iput_SECURE", "iput_REPARSE")
            /\ Before(vol[v].tear, "iput_REPARSE", "iput_OBJID")
            /\ Before(vol[v].tear, "iput_SECURE", "iput_OBJID")
            /\ \A e \in IputEvents \ {"iput_VOL"} :
                  Before(vol[v].tear, e, "iput_VOL")

(* a volume with all the optional indexes has been unmounted *)
C12_Witness ==
    \E v \in Vols :
        /\ vol[v].pc = "unmounted"
        /\ \A e \in IputEvents : Has(vol[v].tear, e)

(* the teardown event that releases a resource *)
Rel(res) ==
    CASE res = "new_rec" -> "free_new_rec"
      [] res = "upcase" -> "put_upcase"
      [] res = "def_table" -> "free_def_table"
      [] res = "mft_bitmap" -> "wnd_close_mft"
      [] res = "used_bitmap" -> "wnd_close_used"
      [] OTHER -> "iput_" \o res

(* C13 as stated: of two resources the bootstrap obtained, the one         *)
(* obtained later is released first, on unmount and on every failure.      *)
C13_AsStated ==
    \A v \in Vols :
        vol[v].tear # <<>> =>
            \A i \in DOMAIN vol[v].acq : \A j \in DOMAIN vol[v].acq :
                i < j => /\ Has(vol[v].tear, Rel(vol[v].acq[i]))
                         /\ Has(vol[v].tear, Rel(vol[v].acq[j]))
                         /\ Before(vol[v].tear, Rel(vol[v].acq[j]),
                                   Rel(vol[v].acq[i]))

(* the order in which put_ntfs lets go of the resources *)
PutOrder == <<"new_rec", "upcase", "def_table", "mft_bitmap", "used_bitmap",
              "MFT", "SECURE", "REPARSE", "OBJID", "VOL">>

PutRank(res) == CHOOSE k \in DOMAIN PutOrder : PutOrder[k] = res

(* C13 (amended): on unmount and on every failure after the volume state   *)
(* exists, every resource the bootstrap obtained is released once, and of  *)
(* two of them the one that comes first in put_ntfs's own fixed sequence   *)
(* is released first, whichever was obtained first; only the $Volume       *)
(* handle is released after everything obtained after it.                  *)
C13_FixedOrder ==
    \A v \in Vols :
        vol[v].tear # <<>> =>
            /\ \A i \in DOMAIN vol[v].acq :
                  Cardinality({ k \in DOMAIN vol[v].tear :
                                  vol[v].tear[k] = Rel(vol[v].acq[i]) }) = 1
            /\ \A i \in DOMAIN vol[v].acq : \A j \in DOMAIN vol[v].acq :
                  /\ PutRank(vol[v].acq[i]) < PutRank(vol[v].acq[j])
                       => Before(vol[v].tear, Rel(vol[v].acq[i]),
                                 Rel(vol[v].acq[j]))
                  /\ (vol[v].acq[i] = "VOL" /\ i < j)
                       => Before(vol[v].tear, Rel(vol[v].acq[j]), "iput_VOL")

(* a mount failed with the case table and everything before it obtained *)
C13_Witness ==
    \E v \in Vols :
        /\ vol[v].pc = "failed"
        /\ vol[v].tear # <<>>
        /\ \E i \in DOMAIN vol[v].acq : vol[v].acq[i] = "upcase"
        /\ \E i \in DOMAIN vol[v].acq : vol[v].acq[i] = "SECURE"

----------------------------------------------------------------------------
(* Properties of ntfs_init_from_boot (SpecBoot) *)

Parsed(v) == vol[v].pc = "parsed"

(* the checks that come before the one on sectors per cluster *)
BeforeSct == {"bread", "system_id", "bytes_per_sector"}

(* n, a natural number below 2^31, is a power of two *)
NatIsPow2(n) == \E k \in 0 .. 30 : n = 2 ^ k

(* the sectors per cluster a byte b declares on disk: b itself up to 0x80, *)
(* above it 2^(256 - b); when a power of two, it is 2^DeclaredLog2(b)      *)
DeclaredIsPow2(b) == b > 128 \/ NatIsPow2(b)
DeclaredLog2(b) ==
    IF b > 128 THEN 256 - b ELSE CHOOSE k \in 0 .. 30 : b = 2 ^ k

(* the same for the byte read as a signed byte v: v itself when positive,  *)
(* otherwise 2^(-v)                                                        *)
SignedIsPow2(v) == v <= 0 \/ NatIsPow2(v)

(* the exponent of a power of two below 2^64 *)
Log2(x) == CHOOSE k \in 0 .. 63 : x = Pow2(k)

(* C14: an accepted boot sector has a cluster size that is at least the    *)
(* sector size, both powers of two; a boot sector whose sector size is not *)
(* a power of two, whose declared sectors per cluster are not one, or      *)
(* whose sector size times declared sectors per cluster does not fit 32    *)
(* bits, is rejected with -EINVAL.                                         *)
C14_ClusterGeometry ==
    \A v \in {1} :
        Parsed(v) =>
            LET b   == vol[v].call.boot
                o   == vol[v].out
                sv  == b.sectors_per_clusters
                bss == b.bytes_per_sector[2] * 256 + b.bytes_per_sector[1]
            IN  /\ o.err = "0" =>
                      /\ ~ Lt64(o.cluster_size, o.sector_size)
                      /\ is_power_of2(o.sector_size)
                      /\ is_power_of2(o.cluster_size)
                /\ (/\ o.at \notin {"bread", "system_id"}
                    /\ \/ ~ NatIsPow2(bss)
                       \/ ~ DeclaredIsPow2(sv)
                       \/ /\ NatIsPow2(bss)
                          /\ DeclaredIsPow2(sv)
                          /\ DeclaredLog2(sv) + Log2(U64(bss)) >= 32)
                      => o.err = "-EINVAL"

(* C15: with v the sectors-per-cluster byte read as a signed byte, the     *)
(* count is v when v > 0 and 2^(-v) otherwise, and the check on it passes  *)
(* exactly when that count is a power of two.                              *)
C15_SignedByteDecoding ==
    \A v \in {1} :
        (Parsed(v) /\ vol[v].out.at \notin BeforeSct) =>
            LET sv  == S8(vol[v].call.boot.sectors_per_clusters)
                got == true_sectors_per_clst(vol[v].call.boot,
                                             vol[v].call.env.kind)
            IN  /\ (vol[v].out.at # "sct_per_clst") <=> SignedIsPow2(sv)
                /\ sv > 0 => got = U64(sv)
                /\ sv <= 0 => /\ 0 - sv <= 31
                              /\ got = Pow2(0 - sv)

(* m * s < n as a product of naturals, s being a power of two *)
TrueProductLess(m, s, n) ==
    LET k == Log2(s)
    IN  /\ k = 0 \/ Shr64(m, 64 - k) = Zero64
        /\ Lt64(Shl64(m, k), n)

(* C16: an accepted boot sector has both MFT cluster numbers, times the    *)
(* sectors per cluster as a product of naturals, below the number of       *)
(* sectors; one that has not is rejected with -EINVAL.                     *)
C16_MftInsideVolume ==
    \A v \in {1} :
        (Parsed(v) /\ vol[v].out.at \notin (BeforeSct \cup {"sct_per_clst"})) =>
            LET b   == vol[v].call.boot
                o   == vol[v].out
                sct == true_sectors_per_clst(b, vol[v].call.env.kind)
                in1 == TrueProductLess(b.mft_clst, sct, b.sectors_per_volume)
                in2 == TrueProductLess(b.mft2_clst, sct, b.sectors_per_volume)
            IN  /\ o.err = "0" => in1 /\ in2
                /\ ~ (in1 /\ in2) => o.err = "-EINVAL"

(* C17: an accepted boot sector has an MFT record size and an index record *)
(* size that are powers of two, the record size at most                    *)
(* MAXIMUM_BYTES_PER_MFT.                                                  *)
C17_RecordSizes ==
    \A v \in {1} :
        (Parsed(v) /\ vol[v].out.err = "0") =>
            /\ is_power_of2(vol[v].out.record_size)
            /\ is_power_of2(vol[v].out.index_size)
            /\ ~ Lt64(U64(MAXIMUM_BYTES_PER_MFT), vol[v].out.record_size)

(* C18: ntfs_init_from_boot on a boot sector that is valid but for a       *)
(* device shorter than the declared size (after the padding) returns 0     *)
(* with the super block read-only, and the gate that follows passes such   *)
(* a mount as a read-only one.                                             *)
C18_ShortDeviceReadOnly ==
    [][ \A v \in Vols :
          /\ (vol[v].pc = "boot" /\ vol'[v].pc # "boot"
                /\ vol'[v].boot_valid
                /\ vol'[v].dev_short)
               => /\ vol'[v].pc = "compress"
                  /\ vol'[v].rdonly
          /\ (GateStep(v) /\ vol[v].dev_short)
               => /\ vol[v].rdonly
                  /\ GatePassed(v) ]_vars

(* a read-write mount of a dirty volume without 'force' got through the    *)
(* gate because its device is short                                        *)
C18_Witness ==
    \E v \in Vols :
        /\ vol[v].pc = "mft"
        /\ ~ vol[v].req_ro
        /\ vol[v].dirty
        /\ ~ vol[v].force
        /\ vol[v].dev_short

----------------------------------------------------------------------------
(* Loading $AttrDef in ntfs_fill_super: the file is copied into             *)
(* sbi->def_table and its entries are counted into sbi->def_entries.        *)
(* A file is its size i_size (a loff_t) and the first whole entries it      *)
(* holds; an entry is its type code (__le32) and its max_sz (__le64).       *)

MaxAttrDefEntries == 3      \* SpecAttrDef: entries of $AttrDef that are enumerated

ATTR_DEF_ENTRY_SIZE == 160                  \* sizeof(struct ATTR_DEF_ENTRY)
ATTR_STD == 16
ATTR_REPARSE == 192
MAXIMUM_REPARSE_DATA_BUFFER_SIZE == 16384
PAGE_SIZE == 4096

(* a u32 below 2^31 as a number *)
Nat32(x) == x[1] + (x[2] * Limb)

AttrDefNone ==
    [err |-> "none", def_table |-> FALSE, def_entries |-> 0, max_size |-> Zero64]

(* (t32 & 0xF) || le32_to_cpu(t[-1].type) >= t32 *)
AttrDefBreak(prev, t32) == (t32[1] % 16 # 0) \/ ~ Lt64(prev, t32)

(* the while loop: t points at entry k, 'done' bytes are accepted *)
RECURSIVE AttrDefScan(_, _, _, _, _)
AttrDefScan(entries, bytes, k, done, r) ==
    IF done + ATTR_DEF_ENTRY_SIZE <= bytes
    THEN IF AttrDefBreak(entries[k - 1].type, entries[k].type)
         THEN r
         ELSE AttrDefScan(entries, bytes, k + 1, done + ATTR_DEF_ENTRY_SIZE,
                          [r EXCEPT !.def_entries = @ + 1,
                                    !.max_size =
                                        IF entries[k].type = U64(ATTR_REPARSE)
                                        THEN entries[k].max_sz ELSE @])
    ELSE r

(* the $AttrDef block of ntfs_fill_super; env says which of ntfs_iget5,    *)
(* ntfs_alloc and ntfs_map_page fail (bad_page: index of the page that     *)
(* cannot be mapped)                                                       *)
LoadAttrDef(f, env) ==
    IF ~ env.iget THEN [AttrDefNone EXCEPT !.err = "-EIO"]
    ELSE IF Lt64(f.i_size, U64(ATTR_DEF_ENTRY_SIZE))
    THEN [AttrDefNone EXCEPT !.err = "-EINVAL"]
    ELSE
      LET bytes == Nat32(Trunc32(f.i_size))
          pages == (bytes + PAGE_SIZE - 1) \div PAGE_SIZE
          t == [AttrDefNone EXCEPT !.def_table = TRUE]
      IN  IF ~ env.alloc THEN [AttrDefNone EXCEPT !.err = "-ENOMEM"]
          ELSE IF pages > 0 /\ env.bad_page = 0
          THEN [t EXCEPT !.err = "-EIO"]
          ELSE IF pages > 0 /\ f.entries[1].type # U64(ATTR_STD)
          THEN [t EXCEPT !.err = "-EINVAL"]
          ELSE IF env.bad_page < pages
          THEN [t EXCEPT !.err = "-EIO"]
          ELSE AttrDefScan(f.entries, bytes, 2, ATTR_DEF_ENTRY_SIZE,
                           [t EXCEPT !.err = "0", !.def_entries = 1,
                                     !.max_size =
                                        U64(MAXIMUM_REPARSE_DATA_BUFFER_SIZE)])

----------------------------------------------------------------------------
(* SpecAttrDef: one load of $AttrDef for each file and environment *)

AttrDefEntry(type, max_sz) == [type |-> type, max_sz |-> max_sz]

(* entries a file may hold: the standard-information entry, two ordinary   *)
(* ones, one with low bits set, the reparse entry, one with bit 31 set,    *)
(* one with type 0                                                         *)
AttrDefEntries ==
    {AttrDefEntry(U64(ATTR_STD), U64(72)),
     AttrDefEntry(U64(32), U64(1024)),
     AttrDefEntry(U64(40), U64(1024)),
     AttrDefEntry(U64(ATTR_REPARSE), U64(256)),
     AttrDefEntry(Pow2(31), U64(8)),
     AttrDefEntry(Zero64, Zero64)}

AttrDefTails == {0, ATTR_DEF_ENTRY_SIZE - 1}

(* files below 4 GiB, all of whose whole entries are enumerated, and files *)
(* of 4 GiB and more, of which the first MaxAttrDefEntries are             *)
AttrDefFiles ==
    { [i_size |-> U64((Len(es) * ATTR_DEF_ENTRY_SIZE) + tail), entries |-> es] :
        es \in UNION {[1 .. n -> AttrDefEntries] : n \in 0 .. MaxAttrDefEntries},
        tail \in AttrDefTails }
    \cup
    { [i_size |-> Add64(Pow2(32), U64((m * ATTR_DEF_ENTRY_SIZE) + tail)),
       entries |-> es] :
        es \in [1 .. MaxAttrDefEntries -> AttrDefEntries],
        m \in 0 .. MaxAttrDefEntries, tail \in AttrDefTails }

AttrDefEnvs ==
    { [iget |-> TRUE, alloc |-> TRUE, bad_page |-> 1],
      [iget |-> FALSE, alloc |-> TRUE, bad_page |-> 1],
      [iget |-> TRUE, alloc |-> FALSE, bad_page |-> 1],
      [iget |-> TRUE, alloc |-> TRUE, bad_page |-> 0] }

AttrDefVolumes(f, env) ==
    [v \in {1} |-> [pc |-> "attrdef", file |-> f, env |-> env, out |-> AttrDefNone]]

InitAttrDef ==
    /\ nres = 0
    /\ s_shared = ResidentRegistry(nres)
    /\ s_shared_lock = 0
    /\ mem = ResidentHeap(nres)
    /\ hist = ResidentHist(nres)
    /\ ncalls = 0
    /\ cl = [c \in Clients |-> NULL]
    /\ last = NoCall
    /\ thr = IdleThreads
    /\ \E f \in AttrDefFiles, env \in AttrDefEnvs : vol = AttrDefVolumes(f, env)

(* Load $AttrDef *)
AttrDefLoad(v) ==
    /\ vol[v].pc = "attrdef"
    /\ vol' = [vol EXCEPT ![v].pc = "loaded",
                          ![v].out = LoadAttrDef(vol[v].file, vol[v].env)]
    /\ UNCHANGED <<s_shared, s_shared_lock, mem, nres, hist, ncalls, cl,
                   last, thr>>

NextAttrDef == \E v \in {1} : AttrDefLoad(v)

SpecAttrDef == InitAttrDef /\ [][NextAttrDef]_vars

----------------------------------------------------------------------------
(* Properties of the $AttrDef load (SpecAttrDef) *)

(* entry j > 1 of es continues the table *)
AttrDefValid(es, j) ==
    /\ es[j].type[1] % 16 = 0
    /\ Lt64(es[j - 1].type, es[j].type)

(* the length of the longest prefix of es all of whose entries after the   *)
(* first are valid                                                         *)
LongestPrefix(es) ==
    CHOOSE k \in 1 .. Len(es) :
        /\ \A j \in 2 .. k : AttrDefValid(es, j)
        /\ k = Len(es) \/ ~ AttrDefValid(es, k + 1)

(* the entries enumerated are all the whole entries of the file *)
WholeEntriesKnown(f) ==
    Lt64(f.i_size, U64((Len(f.entries) + 1) * ATTR_DEF_ENTRY_SIZE))

(* C20: after a successful load of $AttrDef, def_entries is the length of  *)
(* the longest prefix of the file's whole entries in which every entry     *)
(* after the first has a type code above its predecessor's and low four    *)
(* bits zero; an entry that breaks this ends the table and never fails the *)
(* load, so a second entry not above the first leaves one entry.           *)
C20_AttrDefTruncation ==
    \A v \in DOMAIN vol :
        (vol[v].pc = "loaded" /\ "file" \in DOMAIN vol[v]) =>
            LET f == vol[v].file
                out == vol[v].out
            IN  /\ out.err = "0" =>
                      IF WholeEntriesKnown(f)
                           \/ LongestPrefix(f.entries) < Len(f.entries)
                      THEN out.def_entries = LongestPrefix(f.entries)
                      ELSE out.def_entries >= Len(f.entries)
                /\ (/\ vol[v].env.iget /\ vol[v].env.alloc
                    /\ vol[v].env.bad_page > 0
                    /\ Len(f.entries) >= 1
                    /\ f.entries[1].type = U64(ATTR_STD)) => out.err = "0"

(* the file can be opened, the buffer allocated and every page mapped *)
AttrDefReadable(v) ==
    /\ vol[v].env.iget
    /\ vol[v].env.alloc
    /\ vol[v].env.bad_page > 0

(* C21: when $AttrDef can be read and is smaller than one entry, or its    *)
(* first entry's type is not ATTR_STD, the load fails with -EINVAL (and    *)
(* the buffer, if one was allocated, is still in sbi->def_table for        *)
(* put_ntfs to free).                                                      *)
C21_AttrDefSentinel ==
    \A v \in DOMAIN vol :
        (/\ vol[v].pc = "loaded"
         /\ "file" \in DOMAIN vol[v]
         /\ AttrDefReadable(v)
         /\ \/ Lt64(vol[v].file.i_size, U64(ATTR_DEF_ENTRY_SIZE))
            \/ vol[v].file.entries[1].type # U64(ATTR_STD))
            => vol[v].out.err = "-EINVAL"

(* C22: after a successful load, sbi->reparse.max_size is the max_sz of    *)
(* the ATTR_REPARSE entry when one is among the def_entries accepted       *)
(* entries, and MAXIMUM_REPARSE_DATA_BUFFER_SIZE otherwise; entries past   *)
(* the accepted ones do not count.                                         *)
C22_ReparseMaxSize ==
    \A v \in DOMAIN vol :
        (vol[v].pc = "loaded" /\ "file" \in DOMAIN vol[v] /\ vol[v].out.err = "0") =>
            LET es == vol[v].file.entries
                accepted == 1 .. vol[v].out.def_entries
            IN  IF \E k \in accepted : es[k].type = U64(ATTR_REPARSE)
                THEN \E k \in accepted :
                        /\ es[k].type = U64(ATTR_REPARSE)
                        /\ vol[v].out.max_size = es[k].max_sz
                ELSE vol[v].out.max_size = U64(MAXIMUM_REPARSE_DATA_BUFFER_SIZE)

----------------------------------------------------------------------------
(* Properties of the optional steps (Spec) *)

OptionalSteps == {"secure", "extend", "reparse", "objid"}
OptionalErrs == {"extend_err", "reparse_err", "objid_err"}

(* C19: on NTFS 3.x a failure of ntfs_security_init ends the mount; a      *)
(* failure of ntfs_extend_init, ntfs_reparse_init or ntfs_objid_init does  *)
(* not: the next thing done is the load of the root, the later optional    *)
(* steps are not run, and the mount then succeeds exactly when the root is *)
(* installed; on older versions none of the four steps runs.               *)
C19_OptionalSteps ==
    [][ \A v \in Vols :
          /\ (vol[v].pc = "secure" /\ vol'[v].pc # "secure") =>
                IF vol[v].ntfs3
                THEN vol'[v].pc \in {"extend", "failed"}
                ELSE /\ vol'[v].pc = "root"
                     /\ vol'[v].log = vol[v].log
                     /\ \A k \in DOMAIN vol[v].log :
                           vol[v].log[k] \notin OptionalSteps
          /\ (vol[v].pc \in {"extend", "reparse", "objid"}
                /\ vol'[v].pc # vol[v].pc) =>
                /\ vol'[v].pc \in {"reparse", "objid", "root"}
                /\ vol'[v].s_fs_info
                /\ Has(vol'[v].log, vol[v].pc \o "_err") => vol'[v].pc = "root"
          /\ \A k \in DOMAIN vol'[v].log :
                (vol'[v].log[k] \in OptionalErrs /\ k < Len(vol'[v].log))
                   => vol'[v].log[k + 1] = "root"
          /\ (\E k \in DOMAIN vol'[v].log : vol'[v].log[k] \in OptionalErrs) =>
                /\ vol'[v].pc = "mounted" =>
                      vol'[v].ret = "0" /\ vol'[v].s_root
                /\ vol'[v].pc = "failed" =>
                      /\ ~ vol'[v].s_root
                      /\ vol'[v].ret # "0"
                      /\ StepOf(vol'[v].log[Len(vol'[v].log) - 2]) = "root"
                /\ vol'[v].pc \in {"root", "mounted", "failed", "unmounted"} ]_vars

(* a volume is mounted although its $Extend could not be initialised *)
C19_Witness ==
    \E v \in Vols :
        /\ vol[v].pc = "mounted"
        /\ Has(vol[v].log, "extend_err")
        /\ Has(vol[v].log, "secure")

----------------------------------------------------------------------------
(* Properties of the $UpCase step (Spec) *)

UpcaseStep(v) == vol[v].pc = "upcase" /\ vol'[v].pc = "secure"

(* C23: after the $UpCase step sbi->upcase is a live buffer. Either it is  *)
(* a buffer that was registered before (the registry returned it): its     *)
(* count went up by one and the candidate is gone from the heap; or it is  *)
(* the candidate, which is then the only change of the heap, and it is     *)
(* registered with count 1 or, the registry being full and unchanged, kept *)
(* privately. No buffer that was live before the step is freed by it.      *)
C23_CaseTableHandOff ==
    [][ \A v \in Vols : UpcaseStep(v) =>
          LET p == vol'[v].upcase
          IN  /\ p # NULL
              /\ mem'[p] # <<>>
              /\ \A a \in AllAddr : mem[a] # <<>> => mem'[a] = mem[a]
              /\ \A a \in AllAddr : hist'[a].dfree = 0
              /\ IF mem[p] # <<>>
                 THEN /\ mem' = mem
                      /\ \E i \in Occupied(s_shared) :
                            /\ s_shared[i].ptr = p
                            /\ s_shared' = [s_shared EXCEPT ![i].cnt = @ + 1]
                 ELSE /\ mem' = [mem EXCEPT ![p] = mem'[p]]
                      /\ \/ \E i \in Slots \ Occupied(s_shared) :
                              s_shared' = [s_shared EXCEPT
                                             ![i] = [ptr |-> p,
                                                     len |-> UpcaseBytes,
                                                     cnt |-> 1]]
                         \/ /\ Occupied(s_shared) = Slots
                            /\ s_shared' = s_shared ]_vars

(* the registry was full: the volume goes on with its own table *)
C23_Witness ==
    \E v \in Vols :
        /\ vol[v].pc = "secure"
        /\ vol[v].upcase # NULL
        /\ mem[vol[v].upcase] # <<>>
        /\ ~ Registered(s_shared, vol[v].upcase)
        /\ Occupied(s_shared) = Slots

----------------------------------------------------------------------------
(* Loading $Bitmap in ntfs_fill_super: the size of the file is checked     *)
(* against sbi->used.bitmap.nbits, the cluster count ntfs_init_from_boot   *)
(* left there, and the cluster bitmap is initialised.                      *)

(* bitmap_size(bits): the least count of bytes that holds that many bits *)
bitmap_size(bits) == Shr64(Add64(bits, U64(7)), 3)

BitmapNone ==
    [err |-> "none", set_tail |-> FALSE, wnd_init |-> FALSE,
     wnd_nbits |-> Zero64, wnd_tail |-> FALSE, used_bitmap |-> FALSE]

BitmapTooSmall_Never(i_size, tt) == FALSE

(* inode->i_size < bitmap_size(tt) *)
BitmapTooSmall(i_size, tt) == Lt64(i_size, bitmap_size(tt))

(* the $Bitmap block of ntfs_fill_super up to the iput; env says whether   *)
(* ntfs_iget5 succeeds and what wnd_init returns                           *)
LoadBitmap(nbits, i_size, env) ==
    IF ~ env.iget THEN [BitmapNone EXCEPT !.err = "-EIO"]
    ELSE IF Shr64(i_size, 32) # Zero64 THEN [BitmapNone EXCEPT !.err = "-EINVAL"]
    ELSE LET tt == nbits
         IN  IF BitmapTooSmall(i_size, tt)
             THEN [BitmapNone EXCEPT !.err = "-EINVAL"]
             ELSE LET r == [BitmapNone EXCEPT !.set_tail = TRUE]
                      w == [r EXCEPT !.wnd_init = TRUE, !.wnd_nbits = tt,
                                     !.wnd_tail = r.set_tail]
                  IN  IF env.wnd_init # "0"
                      THEN [w EXCEPT !.err = env.wnd_init]
                      ELSE [w EXCEPT !.err = "0", !.used_bitmap = TRUE]

----------------------------------------------------------------------------
(* SpecBitmap: one load of $Bitmap after each accepted boot sector *)

(* boot sectors of volumes of 9, 64, 125000 and 2^32 - 1 clusters *)
BitmapBoots ==
    { [GoodBoot EXCEPT !.sectors_per_volume = n] :
        n \in {U64(72), U64(512), U64(1000000), Sub64(Pow2(35), U64(8))} }

BitmapSizes(nbits) ==
    {Zero64, Sub64(bitmap_size(nbits), U64(1)), bitmap_size(nbits),
     Add64(bitmap_size(nbits), U64(8)), Sub64(Pow2(32), U64(1)), Pow2(32),
     Add64(Pow2(32), bitmap_size(nbits)), Pow2(40)}

BitmapEnvs ==
    { [iget |-> g, wnd_init |-> w] :
        g \in BOOLEAN, w \in {"0", "-ENOMEM", "-EIO"} }

BitmapVolumes(boot, i_size, env) ==
    [v \in {1} |->
        [pc |-> "bitmap",
         boot |-> ntfs_init_from_boot(boot, 512, Pow2(40), GoodEnv),
         i_size |-> i_size, env |-> env, out |-> BitmapNone]]

InitBitmap ==
    /\ nres = 0
    /\ s_shared = ResidentRegistry(nres)
    /\ s_shared_lock = 0
    /\ mem = ResidentHeap(nres)
    /\ hist = ResidentHist(nres)
    /\ ncalls = 0
    /\ cl = [c \in Clients |-> NULL]
    /\ last = NoCall
    /\ thr = IdleThreads
    /\ \E boot \in BitmapBoots, env \in BitmapEnvs :
         \E i_size \in BitmapSizes(ntfs_init_from_boot(boot, 512, Pow2(40),
                                                       GoodEnv).nbits) :
            vol = BitmapVolumes(boot, i_size, env)

(* Load $Bitmap *)
BitmapLoad(v) ==
    /\ vol[v].pc = "bitmap"
    /\ vol[v].boot.err = "0"
    /\ vol' = [vol EXCEPT ![v].pc = "bitmap_done",
                          ![v].out = LoadBitmap(vol[v].boot.nbits,
                                                vol[v].i_size, vol[v].env)]
    /\ UNCHANGED <<s_shared, s_shared_lock, mem, nres, hist, ncalls, cl,
                   last, thr>>

NextBitmap == \E v \in {1} : BitmapLoad(v)

SpecBitmap == InitBitmap /\ [][NextBitmap]_vars

----------------------------------------------------------------------------
(* Properties of the $Bitmap load (SpecBitmap) *)

(* the cluster count of the geometry: the bytes of the volume's sectors,   *)
(* fs_size less the one sector added to it, over the cluster size          *)
GeometryClusters(b) == Shr64(Sub64(b.fs_size, b.sector_size), b.cluster_bits)

BitmapLoaded(v) ==
    /\ vol[v].pc = "bitmap_done"
    /\ "i_size" \in DOMAIN vol[v]
    /\ vol[v].env.iget

BitmapRefused(v) ==
    /\ vol[v].out.err = "-EINVAL"
    /\ ~ vol[v].out.wnd_init
    /\ ~ vol[v].out.used_bitmap

BitmapInitialised(v) ==
    /\ vol[v].out.wnd_init
    /\ vol[v].out.wnd_nbits = GeometryClusters(vol[v].boot)
    /\ vol[v].out.wnd_tail
    /\ vol[v].out.err = vol[v].env.wnd_init
    /\ vol[v].out.used_bitmap = (vol[v].env.wnd_init = "0")

(* C24 as stated: a $Bitmap below the bytes needed for one bit per cluster *)
(* is refused with -EINVAL before wnd_init; any other $Bitmap has wnd_init *)
(* called with the cluster count of the geometry, set_tail already set.    *)
C24_AsStated ==
    \A v \in DOMAIN vol : BitmapLoaded(v) =>
        IF Lt64(vol[v].i_size, bitmap_size(GeometryClusters(vol[v].boot)))
        THEN BitmapRefused(v)
        ELSE BitmapInitialised(v)

(* C24: a $Bitmap below the bytes needed for one bit per cluster, or of    *)
(* 4 GiB and more, is refused with -EINVAL before wnd_init; any other      *)
(* $Bitmap has wnd_init called with the cluster count of the geometry,     *)
(* set_tail already set.                                                   *)
C24_BitmapCrossCheck ==
    \A v \in DOMAIN vol : BitmapLoaded(v) =>
        IF \/ Lt64(vol[v].i_size, bitmap_size(GeometryClusters(vol[v].boot)))
           \/ ~ Lt64(vol[v].i_size, Pow2(32))
        THEN BitmapRefused(v)
        ELSE BitmapInitialised(v)

(* a $Bitmap of exactly the bytes needed, for 125000 clusters *)
C24_Witness ==
    \E v \in DOMAIN vol :
        /\ BitmapLoaded(v)
        /\ GeometryClusters(vol[v].boot) = U64(125000)
        /\ vol[v].i_size = U64(15625)
        /\ vol[v].out.used_bitmap
        /\ vol[v].out.wnd_nbits = U64(125000)

----------------------------------------------------------------------------
(* Properties of releases of handles the registry does not hold (Spec) *)

(* C25: in every state the mounts and unmounts reach, ntfs_put_shared on   *)
(* NULL or on any address no occupied slot holds (a private case table, a  *)
(* candidate not offered yet, an address a free slot still remembers)      *)
(* returns that same handle and leaves every slot as it is; no slot has a  *)
(* count below zero.                                                       *)
C25_UnregisteredRelease ==
    /\ \A p \in {NULL} \cup AllAddr :
          ~ Registered(s_shared, p) =>
              ntfs_put_shared(s_shared, p) = [reg |-> s_shared, ret |-> p]
    /\ \A i \in Slots : s_shared[i].cnt >= 0

(* a mount that kept a private table, the registry being full, has failed: *)
(* its teardown gave the table to ntfs_put_shared and freed it             *)
C25_Witness ==
    \E v \in Vols :
        /\ vol[v].pc = "failed"
        /\ vol[v].nput = 1
        /\ vol[v].was_upcase # NULL
        /\ ~ Registered(s_shared, vol[v].was_upcase)
        /\ mem[vol[v].was_upcase] = <<>>
        /\ Occupied(s_shared) = Slots

----------------------------------------------------------------------------
(* Properties of the registry's slots (SpecReg) *)

(* slots i and j hold equal tables *)
SameTable(i, j) ==
    /\ s_shared[i].len = s_shared[j].len
    /\ MemEq(mem[s_shared[i].ptr], mem[s_shared[j].ptr], s_shared[i].len)

(* the slots whose buffer ntfs_set_shared would read for table tbl at a *)
SetCompared(tbl, a) ==
    SetLoop(s_shared, [mem EXCEPT ![a] = tbl], a, Len(tbl), SetLocals).l.cmp

(* C26: whatever acquires and releases have been made, no two occupied     *)
(* slots hold tables of equal length and content, at most NSlots slots are *)
(* occupied, and the memcmp of an acquire reads only buffers of occupied   *)
(* slots, which are live.                                                  *)
C26_RegistryUnique ==
    /\ \A i, j \in Occupied(s_shared) : i # j => ~ SameTable(i, j)
    /\ Cardinality(Occupied(s_shared)) <= NSlots
    /\ \A tbl \in FgTables, a \in FreeAddrs(mem) :
          \A i \in SetCompared(tbl, a) :
              /\ s_shared[i].cnt > 0
              /\ mem[s_shared[i].ptr] # <<>>

(* two callers share one slot, and a free slot still remembers a buffer    *)
(* that was released and freed                                             *)
C26_Witness ==
    /\ \E i \in Occupied(s_shared) :
          /\ s_shared[i].cnt = 2
          /\ \A c \in Clients : cl[c] = s_shared[i].ptr
    /\ \E i \in Slots :
          /\ s_shared[i].cnt = 0
          /\ s_shared[i].ptr # NULL
          /\ mem[s_shared[i].ptr] = <<>>

----------------------------------------------------------------------------
(* Mount options and ntfs_remount. Of struct ntfs_mount_options the model  *)
(* keeps 'force' and the two nls pointers; a pointer is the charset of the *)
(* table it points to, or "NULL". refs counts, per charset, the references *)
(* load_nls has given the volume and unload_nls has not taken back.        *)

MaxRemounts == 2            \* SpecRemount: calls of ntfs_remount in the window

Charsets == {"utf8", "cp437"}

ZeroOptions == [force |-> FALSE, nls |-> <<"NULL", "NULL">>]

NoRefs == [c \in Charsets |-> 0]

(* unload_nls(nls): nothing on NULL *)
unload_nls(refs, nls) ==
    IF nls = "NULL" THEN refs ELSE [refs EXCEPT ![nls] = @ - 1]

(* clear_mount_options: unload_nls(options->nls[0]); unload_nls(nls[1]) *)
clear_mount_options(refs, options) ==
    unload_nls(unload_nls(refs, options.nls[1]), options.nls[2])

(* ntfs_parse_options works on opts in three parts: the loop over the     *)
(* options, the two load_nls, the two unloads. data: whether 'force' is    *)
(* given, the names given with nls= and nls_alt= ("" when absent), and     *)
(* whether a numeric option is malformed and where ("none", "before" the   *)
(* force option or "after" it).                                            *)

(* the loop: it returns at the malformed option, the options behind it are *)
(* not read                                                                *)
parse_tokens(opts, data) ==
    [err  |-> IF data.bad # "none" THEN "-EINVAL" ELSE "0",
     opts |-> [opts EXCEPT !.force = (data.force /\ data.bad # "before") \/ @]]

(* one round of the loop over opts->nls, i = 1 for nls[0] and 2 for        *)
(* nls[1]: load_nls(name), or load_nls_default() when no name was given    *)
(* (default: its charset); -EINVAL if the table cannot be loaded           *)
parse_load_nls(p, i, name, default) ==
    LET n == IF name # "" THEN name ELSE default
    IN  IF n \notin Charsets
        THEN [p EXCEPT !.err = "-EINVAL"]
        ELSE [p EXCEPT !.opts.nls[i] = n, !.refs[n] = @ + 1]

(* unload the alternative table if it is the primary one; unload the       *)
(* primary one if it is utf8                                               *)
parse_unload(p) ==
    LET n0 == p.opts.nls[1]
        n1 == p.opts.nls[2]
        o4 == IF n0 = n1 THEN [p.opts EXCEPT !.nls[2] = "NULL"] ELSE p.opts
        f4 == IF n0 = n1 THEN unload_nls(p.refs, n1) ELSE p.refs
        o5 == IF n0 = "utf8" THEN [o4 EXCEPT !.nls[1] = "NULL"] ELSE o4
        f5 == IF n0 = "utf8" THEN unload_nls(f4, n0) ELSE f4
    IN  [err |-> "0", opts |-> o5, refs |-> f5]

ntfs_parse_options(opts, refs, data, default) ==
    LET t  == parse_tokens(opts, data)
        p0 == [err |-> t.err, opts |-> t.opts, refs |-> refs]
        p1 == parse_load_nls(p0, 1, data.nls, default)
        p2 == parse_load_nls(p1, 2, data.nls_alt, default)
    IN  IF p0.err # "0" THEN p0
        ELSE IF p1.err # "0" THEN p1
        ELSE IF p2.err # "0" THEN p2
        ELSE parse_unload(p2)

RemountRefuses_Never(need_replay, dirty, ro_rw, force) == FALSE

(* the two refusals of ntfs_remount: ro -> rw with the journal not         *)
(* replayed, or with the volume dirty and no 'force' in the new options    *)
RemountRefuses(need_replay, dirty, ro_rw, force) ==
    \/ ro_rw /\ need_replay
    \/ ro_rw /\ dirty /\ ~ force

(* ntfs_sync_fs: the inodes of $Secure, $ObjId and $Reparse are written    *)
(* and, if no write failed, ntfs_set_state(sbi, NTFS_DIRTY_CLEAR) is       *)
(* called; cleared: whether that call took VOLUME_FLAG_DIRTY off the       *)
(* volume flags                                                            *)
ntfs_sync_fs(r, cleared) == [r EXCEPT !.dirty = @ /\ ~ cleared]

(* sync_filesystem(sb): nothing on a read-only super block, else the       *)
(* sync_fs of the super block                                              *)
sync_filesystem(r, cleared) ==
    IF r.rdonly THEN r ELSE ntfs_sync_fs(r, cleared)

(* restore_opts of ntfs_remount: the options parsed so far are cleared,    *)
(* old_opts is copied back, the call returns e                             *)
restore_opts(r, e) ==
    [r EXCEPT !.refs = clear_mount_options(r.refs, r.options),
              !.options = r.call.old_opts,
              !.ret = e,
              !.pc = "mounted",
              !.nrem = @ + 1]

(* put_ntfs on the way out of a mount that failed: clear_mount_options;    *)
(* sbi is freed                                                            *)
put_ntfs_options(r) ==
    [r EXCEPT !.refs = clear_mount_options(r.refs, r.options),
              !.options = ZeroOptions]

----------------------------------------------------------------------------
(* SpecRemount: a mount, reduced to its options and its gate, followed by  *)
(* remounts and syncs. ntfs_remount runs under the write lock of the super *)
(* block, alone; it is taken in the steps between which it can wait:       *)
(* before each load_nls and in sync_filesystem. In between sbi->options    *)
(* holds what has been parsed so far.                                      *)

OptionData ==
    { [force |-> f, nls |-> n, nls_alt |-> a, bad |-> b] :
        f \in BOOLEAN, n \in {"", "utf8", "cp437", "none"},
        a \in {"", "cp437"}, b \in {"none", "before", "after"} }

RemountPcs == {"rm_nls", "rm_nls_alt", "rm_sync"}

(* the call of ntfs_remount last begun: its arguments, and the read-only   *)
(* state, the options (old_opts) and the references at its entry           *)
NoRemount ==
    [flags_ro |-> FALSE,
     data |-> [force |-> FALSE, nls |-> "", nls_alt |-> "", bad |-> "none"],
     was_ro |-> FALSE, old_opts |-> ZeroOptions, old_refs |-> NoRefs]

RemountVolumes(data, default, ro, nr, d) ==
    LET p == ntfs_parse_options(ZeroOptions, NoRefs, data, default)
        r == [pc |-> "gate",
              options |-> p.opts, refs |-> p.refs, default |-> default,
              rdonly |-> ro, need_replay |-> nr, dirty |-> d,
              ret |-> p.err, nrem |-> 0, call |-> NoRemount]
    IN  [v \in {1} |->
            IF p.err = "0" THEN r
            ELSE [put_ntfs_options(r) EXCEPT !.pc = "failed"]]

InitRemount ==
    /\ nres = 0
    /\ s_shared = ResidentRegistry(nres)
    /\ s_shared_lock = 0
    /\ mem = ResidentHeap(nres)
    /\ hist = ResidentHist(nres)
    /\ ncalls = 0
    /\ cl = [c \in Clients |-> NULL]
    /\ last = NoCall
    /\ thr = IdleThreads
    /\ \E data \in OptionData, default \in Charsets, ro, nr, d \in BOOLEAN :
         vol = RemountVolumes(data, default, ro, nr, d)

(* the two checks of ntfs_fill_super after the replay; a refusal leaves    *)
(* through out: and put_ntfs                                               *)
RmGate(v) ==
    /\ vol[v].pc = "gate"
    /\ vol' = [vol EXCEPT ![v] =
                 IF GateRejects(vol[v].need_replay, vol[v].dirty,
                                vol[v].rdonly, vol[v].options.force)
                 THEN [put_ntfs_options(vol[v]) EXCEPT !.pc = "failed",
                                                       !.ret = "-EINVAL"]
                 ELSE [vol[v] EXCEPT !.pc = "mounted", !.ret = "0"]]
    /\ UNCHANGED <<s_shared, s_shared_lock, mem, nres, hist, ncalls, cl,
                   last, thr>>

(* mount -o remount: ntfs_remount from its entry to the first load_nls:    *)
(* kstrdup, old_opts saved, sbi->options cleared and zeroed, the loop over *)
(* the options                                                             *)
RmRemount(v) ==
    /\ vol[v].pc = "mounted"
    /\ vol[v].nrem < MaxRemounts
    /\ \E flags_ro \in BOOLEAN, data \in OptionData, kstrdup \in BOOLEAN :
         LET r0 == [vol[v] EXCEPT !.call =
                      [flags_ro |-> flags_ro, data |-> data,
                       was_ro |-> vol[v].rdonly,
                       old_opts |-> vol[v].options,
                       old_refs |-> vol[v].refs]]
             t  == parse_tokens(ZeroOptions, data)
             r1 == [r0 EXCEPT !.refs = clear_mount_options(r0.refs, r0.options),
                              !.options = t.opts]
         IN  vol' = [vol EXCEPT ![v] =
                       IF ~ kstrdup
                       THEN [r0 EXCEPT !.ret = "-ENOMEM", !.nrem = @ + 1]
                       ELSE IF t.err # "0" THEN restore_opts(r1, t.err)
                       ELSE [r1 EXCEPT !.pc = "rm_nls"]]
    /\ UNCHANGED <<s_shared, s_shared_lock, mem, nres, hist, ncalls, cl,
                   last, thr>>

(* ntfs_remount, one load_nls of ntfs_parse_options; after the second the  *)
(* unloads, the return of ntfs_parse_options and the journal test          *)
RmLoadNls(v) ==
    /\ vol[v].pc \in {"rm_nls", "rm_nls_alt"}
    /\ LET r  == vol[v]
           i  == IF r.pc = "rm_nls" THEN 1 ELSE 2
           p  == parse_load_nls([err |-> "0", opts |-> r.options,
                                 refs |-> r.refs], i,
                                IF i = 1 THEN r.call.data.nls
                                         ELSE r.call.data.nls_alt,
                                r.default)
           u  == parse_unload(p)
           r2 == [r EXCEPT !.options = u.opts, !.refs = u.refs]
           ro_rw == r.rdonly /\ ~ r.call.flags_ro
       IN  vol' = [vol EXCEPT ![v] =
                     IF p.err # "0" THEN restore_opts(r, p.err)
                     ELSE IF i = 1
                     THEN [r EXCEPT !.options = p.opts, !.refs = p.refs,
                                    !.pc = "rm_nls_alt"]
                     ELSE IF RemountRefuses(r.need_replay, FALSE, ro_rw,
                                            u.opts.force)
                     THEN restore_opts(r2, "-EINVAL")
                     ELSE [r2 EXCEPT !.pc = "rm_sync"]]
    /\ UNCHANGED <<s_shared, s_shared_lock, mem, nres, hist, ncalls, cl,
                   last, thr>>

(* ntfs_remount from sync_filesystem to its return: the dirty test, then   *)
(* clear_mount_options(&old_opts); on success the caller puts the          *)
(* SB_RDONLY of *flags into sb->s_flags                                    *)
RmSync(v) ==
    /\ vol[v].pc = "rm_sync"
    /\ \E cleared \in BOOLEAN :
         LET r == sync_filesystem(vol[v], cleared)
             ro_rw == r.rdonly /\ ~ r.call.flags_ro
         IN  vol' = [vol EXCEPT ![v] =
                       IF RemountRefuses(FALSE, r.dirty, ro_rw, r.options.force)
                       THEN restore_opts(r, "-EINVAL")
                       ELSE [r EXCEPT !.refs = clear_mount_options(
                                                  r.refs, r.call.old_opts),
                                      !.rdonly = r.call.flags_ro,
                                      !.ret = "0",
                                      !.pc = "mounted",
                                      !.nrem = @ + 1]]
    /\ UNCHANGED <<s_shared, s_shared_lock, mem, nres, hist, ncalls, cl,
                   last, thr>>

(* the super operation sync_fs, called by sync and by the flusher under    *)
(* the read lock of the super block, so not while a remount is under way   *)
RmSyncFs(v) ==
    /\ vol[v].pc = "mounted"
    /\ \E cleared \in BOOLEAN :
         vol' = [vol EXCEPT ![v] = ntfs_sync_fs(vol[v], cleared)]
    /\ UNCHANGED <<s_shared, s_shared_lock, mem, nres, hist, ncalls, cl,
                   last, thr>>

NextRemount ==
    \E v \in {1} :
        RmGate(v) \/ RmRemount(v) \/ RmLoadNls(v) \/ RmSync(v) \/ RmSyncFs(v)

SpecRemount == InitRemount /\ [][NextRemount]_vars

----------------------------------------------------------------------------
(* Properties of the remount (SpecRemount) *)

(* a call of ntfs_remount returns *)
RemountStep(v) ==
    /\ "nrem" \in DOMAIN vol[v]
    /\ vol'[v].nrem = vol[v].nrem + 1

(* C27: a mounted volume with NTFS_FLAGS_NEED_REPLAY set is read-only,     *)
(* after the mount and after every remount; a remount from read-only to    *)
(* read-write with that flag set fails, and so does one with the volume    *)
(* dirty and no 'force' among its options.                                 *)
C27_NeverReadWrite ==
    [][ \A v \in DOMAIN vol :
          /\ ("nrem" \in DOMAIN vol'[v]
                /\ vol'[v].pc \in {"mounted"} \cup RemountPcs
                /\ vol'[v].need_replay) => vol'[v].rdonly
          /\ (RemountStep(v) /\ vol[v].rdonly /\ ~ vol'[v].call.flags_ro
                /\ (vol[v].need_replay
                      \/ (vol[v].dirty /\ ~ vol'[v].call.data.force))) =>
                /\ vol'[v].ret # "0"
                /\ vol'[v].rdonly ]_vars

(* a remount to read-write was refused for the journal, after a remount    *)
(* that went through                                                       *)
C27_Witness ==
    \E v \in DOMAIN vol :
        /\ "nrem" \in DOMAIN vol[v]
        /\ vol[v].pc = "mounted"
        /\ vol[v].nrem = 2
        /\ vol[v].need_replay
        /\ vol[v].rdonly
        /\ ~ vol[v].call.flags_ro
        /\ vol[v].call.data.force
        /\ vol[v].call.data.bad = "none"
        /\ vol[v].call.data.nls = ""
        /\ vol[v].ret = "-EINVAL"

(* the references the options opts need: one for each nls pointer *)
Held(opts) ==
    [c \in Charsets |->
        Cardinality({ i \in 1 .. 2 : opts.nls[i] = c })]

(* C28: a remount that fails leaves sbi->options as it was, with every nls *)
(* table it points to still referenced; a remount that succeeds leaves the *)
(* newly parsed options, holds exactly their tables and has given back     *)
(* each of the old ones once.                                              *)
C28_RemountOptions ==
    [][ \A v \in DOMAIN vol : RemountStep(v) =>
          IF vol'[v].ret # "0"
          THEN /\ vol'[v].options = vol'[v].call.old_opts
               /\ vol'[v].refs = vol'[v].call.old_refs
               /\ \A c \in Charsets : vol'[v].refs[c] >= Held(vol'[v].options)[c]
          ELSE /\ vol'[v].options.force = vol'[v].call.data.force
               /\ vol'[v].refs = Held(vol'[v].options) ]_vars

----------------------------------------------------------------------------
(* ntfs_discard. sbi->discard_granularity and its inverted mask are set by *)
(* ntfs_fill_super from the request queue's limits, or left zero.          *)

MaxDiscards == 2            \* SpecDiscard: calls of ntfs_discard in the window

SECTOR_SHIFT == 9           \* start >> 9, (end - start) >> 9

(* ~x *)
Not64(x) == [i \in Limbs |-> Limb - 1 - x[i]]

(* x <= y *)
Le64(x, y) == ~ Lt64(y, x)

(* a & b on the low k bits of two limbs *)
RECURSIVE BitAnd(_, _, _)
BitAnd(a, b, k) ==
    IF k = 0 THEN 0
    ELSE ((a % 2) * (b % 2)) + (2 * BitAnd(a \div 2, b \div 2, k - 1))

(* x & m, limb by limb *)
Mask64(x, m) == [i \in Limbs |-> BitAnd(x[i], m[i], 16)]

(* if (!rq || !blk_queue_discard(rq) || !rq->limits.discard_granularity)   *)
(*     ; else { discard_granularity = ...; mask_inv = ~(u64)(g - 1); }      *)
SetGranularity(sbi, has_discard, g) ==
    IF ~ has_discard \/ g = 0 THEN sbi
    ELSE [sbi EXCEPT !.discard_granularity = U64(g),
                     !.discard_granularity_mask_inv =
                         Not64(Trunc32(Sub64(U64(g), U64(1))))]

NoRequest == [issued |-> FALSE, start |-> Zero64, nr |-> Zero64]

MarkNoDiscard_Never(nodiscard, err) == nodiscard

(* if (err == -EOPNOTSUPP) sbi->flags |= NTFS_FLAGS_NODISCARD *)
MarkNoDiscard(nodiscard, err) == nodiscard \/ err = "-EOPNOTSUPP"

(* ntfs_discard(sbi, lcn, len) up to its call of blkdev_issue_discard,     *)
(* where it waits for the device. The result: sbi afterwards, the request  *)
(* made (first sector, number of sectors) and, if none is made, the return *)
(* value; "wait" stands for a return value that is still to come.          *)
ntfs_discard(sbi, lcn, len) ==
    LET s1 == IF sbi.next_free_lcn = Trunc32(Add64(lcn, len))
              THEN [sbi EXCEPT !.next_free_lcn = lcn] ELSE sbi
        lbo == Shl64(lcn, sbi.cluster_bits)
        bytes == Shl64(len, sbi.cluster_bits)
        Request(start, end) ==
            IF ~ Lt64(start, end)
            THEN [sbi |-> s1, ret |-> "0", req |-> NoRequest]
            ELSE [sbi |-> s1, ret |-> "wait",
                  req |-> [issued |-> TRUE,
                           start |-> Shr64(start, SECTOR_SHIFT),
                           nr |-> Shr64(Sub64(end, start), SECTOR_SHIFT)]]
    IN  IF sbi.nodiscard
        THEN [sbi |-> s1, ret |-> "-EOPNOTSUPP", req |-> NoRequest]
        ELSE IF ~ sbi.discard
        THEN [sbi |-> s1, ret |-> "-EOPNOTSUPP", req |-> NoRequest]
        ELSE CHOOSE r \in
               { Request(start, end) :
                   start \in {Mask64(Sub64(Add64(lbo, sbi.discard_granularity),
                                           U64(1)),
                                     sbi.discard_granularity_mask_inv)},
                   end \in {Mask64(Add64(lbo, bytes),
                                   sbi.discard_granularity_mask_inv)} } : TRUE

(* ntfs_discard from the return of blkdev_issue_discard, err, to its own *)
ntfs_discard_answer(sbi, err) ==
    [sbi |-> [sbi EXCEPT !.nodiscard = MarkNoDiscard(@, err)], ret |-> err]

----------------------------------------------------------------------------
(* SpecDiscard: calls of ntfs_discard on a mounted volume, by threads that *)
(* nothing in this file keeps apart, the 'discard' option being changed by *)
(* remounts in between and while a request is with the device              *)

DiscardThreads == {1, 2}

(* a thread of ntfs_discard: whether it waits in blkdev_issue_discard, the *)
(* request it waits for, the return value of its last call                 *)
NoFlight == [wait |-> FALSE, req |-> NoRequest, ret |-> "none"]

(* granularities of the device, in bytes; 0: none reported *)
Granularities == {0, 512, 4096, 12288}

ClusterBits == {9, 12}

(* what the request queue says: whether it discards at all, and the       *)
(* granularity among its limits                                            *)
DeviceLimits ==
    {<<TRUE, g>> : g \in Granularities} \cup {<<FALSE, 4096>>}

DiscardLcns == {U64(0), U64(1), U64(7), U64(9), Sub64(Pow2(32), U64(32))}

DiscardLens == {U64(1), U64(8), U64(16), U64(24)}

DiscardAnswers == {"0", "-EOPNOTSUPP", "-EIO"}

(* the call of ntfs_discard last begun, and the state at its entry *)
NoDiscardCall ==
    [lcn |-> Zero64, len |-> Zero64, ret |-> "none", req |-> NoRequest,
     was_nodiscard |-> FALSE, was_refused |-> FALSE, was_discard |-> FALSE]

DiscardSbi(bits, has_discard, g, d) ==
    SetGranularity([cluster_bits |-> bits,
                    discard_granularity |-> Zero64,
                    discard_granularity_mask_inv |-> Zero64,
                    discard |-> d, nodiscard |-> FALSE,
                    next_free_lcn |-> U64(9)],
                   has_discard, g)

DiscardVolumes(bits, has_discard, g, d) ==
    [v \in {1} |->
        [pc |-> "mounted", sbi |-> DiscardSbi(bits, has_discard, g, d),
         limit |-> IF has_discard THEN g ELSE 0,
         refused |-> FALSE, ndisc |-> 0, call |-> NoDiscardCall,
         flight |-> [t \in DiscardThreads |-> NoFlight]]]

InitDiscard ==
    /\ nres = 0
    /\ s_shared = ResidentRegistry(nres)
    /\ s_shared_lock = 0
    /\ mem = ResidentHeap(nres)
    /\ hist = ResidentHist(nres)
    /\ ncalls = 0
    /\ cl = [c \in Clients |-> NULL]
    /\ last = NoCall
    /\ thr = IdleThreads
    /\ \E bits \in ClusterBits, lim \in DeviceLimits, d \in BOOLEAN :
         vol = DiscardVolumes(bits, lim[1], lim[2], d)

(* a freed run is handed to ntfs_discard: the call returns at once, or    *)
(* makes its request and waits                                             *)
DsDiscard(v) ==
    /\ vol[v].pc = "mounted"
    /\ vol[v].ndisc < MaxDiscards
    /\ \E lcn \in DiscardLcns, len \in DiscardLens :
         \E r \in {ntfs_discard(vol[v].sbi, lcn, len)} :
            \E t \in DiscardThreads :
               /\ ~ vol[v].flight[t].wait
               /\ vol' = [vol EXCEPT
                         ![v].sbi = r.sbi,
                         ![v].ndisc = @ + 1,
                         ![v].flight[t] = [wait |-> r.req.issued,
                                           req |-> r.req,
                                           ret |-> r.ret],
                         ![v].call = [lcn |-> lcn, len |-> len, ret |-> r.ret,
                                      req |-> r.req,
                                      was_nodiscard |-> vol[v].sbi.nodiscard,
                                      was_refused |-> vol[v].refused,
                                      was_discard |-> vol[v].sbi.discard]]
    /\ UNCHANGED <<s_shared, s_shared_lock, mem, nres, hist, ncalls, cl,
                   last, thr>>

(* blkdev_issue_discard returns to a waiting call, which marks the volume  *)
(* if the answer is -EOPNOTSUPP and returns the answer                     *)
DsAnswer(v) ==
    /\ vol[v].pc = "mounted"
    /\ \E t \in DiscardThreads, answer \in DiscardAnswers :
         /\ vol[v].flight[t].wait
         /\ \E r \in {ntfs_discard_answer(vol[v].sbi, answer)} :
               vol' = [vol EXCEPT
                         ![v].sbi = r.sbi,
                         ![v].refused = @ \/ answer = "-EOPNOTSUPP",
                         ![v].flight[t] = [wait |-> FALSE,
                                           req |-> NoRequest,
                                           ret |-> r.ret]]
    /\ UNCHANGED <<s_shared, s_shared_lock, mem, nres, hist, ncalls, cl,
                   last, thr>>

(* a remount zeroes the options and parses them anew: 'discard' goes off,  *)
(* or comes on                                                             *)
DsRemount(v) ==
    /\ vol[v].pc = "mounted"
    /\ \E d \in BOOLEAN :
         /\ d # vol[v].sbi.discard
         /\ vol' = [vol EXCEPT ![v].sbi.discard = d]
    /\ UNCHANGED <<s_shared, s_shared_lock, mem, nres, hist, ncalls, cl,
                   last, thr>>

NextDiscard == \E v \in {1} : DsDiscard(v) \/ DsAnswer(v) \/ DsRemount(v)

SpecDiscard == InitDiscard /\ [][NextDiscard]_vars

----------------------------------------------------------------------------
(* Properties of ntfs_discard (SpecDiscard) *)

DiscardStep(v) ==
    /\ "ndisc" \in DOMAIN vol[v]
    /\ vol'[v].ndisc = vol[v].ndisc + 1

(* C29: once a request of ntfs_discard has been answered -EOPNOTSUPP, each *)
(* later call returns -EOPNOTSUPP and makes no request, whatever the       *)
(* options have become; with the 'discard' option off no call makes a      *)
(* request.                                                                *)
C29_DiscardSticky ==
    [][ \A v \in DOMAIN vol : DiscardStep(v) =>
          /\ vol[v].refused =>
                /\ vol'[v].call.ret = "-EOPNOTSUPP"
                /\ ~ vol'[v].call.req.issued
                /\ vol'[v].refused
          /\ ~ vol[v].sbi.discard => ~ vol'[v].call.req.issued ]_vars

(* the device refused a request; the option was on at the next call, and   *)
(* that call was turned away without a request                             *)
C29_Witness ==
    \E v \in DOMAIN vol :
        /\ "ndisc" \in DOMAIN vol[v]
        /\ vol[v].ndisc = 2
        /\ vol[v].call.was_refused
        /\ vol[v].call.was_discard
        /\ vol[v].call.ret = "-EOPNOTSUPP"
        /\ ~ vol[v].call.req.issued
        /\ vol[v].call.len = U64(24)

(* x modulo g, for 0 < g <= 16384 *)
Mod64(x, g) ==
    LET r4 == x[4] % g
        r3 == ((r4 * Limb) + x[3]) % g
        r2 == ((r3 * Limb) + x[2]) % g
    IN  ((r2 * Limb) + x[1]) % g

(* the least multiple of g that is not below x *)
AlignUp(x, g) == Add64(x, U64((g - Mod64(x, g)) % g))

(* the bytes of the run (lcn, len): [RunStart, RunEnd) *)
RunStart(v) == Shl64(vol[v].call.lcn, vol[v].sbi.cluster_bits)
RunEnd(v) ==
    Shl64(Add64(vol[v].call.lcn, vol[v].call.len), vol[v].sbi.cluster_bits)

(* the bytes of the request: [SentStart, SentEnd) *)
SentStart(v) == Shl64(vol[v].call.req.start, SECTOR_SHIFT)
SentEnd(v) ==
    Add64(SentStart(v), Shl64(vol[v].call.req.nr, SECTOR_SHIFT))

(* C30: a request of ntfs_discard for the run (lcn, len) starts and ends   *)
(* on multiples of the device's discard granularity and lies inside the    *)
(* bytes of the run; when the run holds no whole granule, or the device    *)
(* reported no granularity, no request is made and 0 is returned.          *)
C30_DiscardRange ==
    \A v \in DOMAIN vol :
        ("ndisc" \in DOMAIN vol[v] /\ vol[v].ndisc > 0) =>
            LET g == vol[v].limit
            IN  /\ vol[v].call.req.issued =>
                      /\ g # 0
                      /\ Mod64(SentStart(v), g) = 0
                      /\ Mod64(SentEnd(v), g) = 0
                      /\ Le64(RunStart(v), SentStart(v))
                      /\ Lt64(SentStart(v), SentEnd(v))
                      /\ Le64(SentEnd(v), RunEnd(v))
                /\ (/\ ~ vol[v].call.was_nodiscard
                    /\ vol[v].call.was_discard
                    /\ \/ g = 0
                       \/ Lt64(RunEnd(v), Add64(AlignUp(RunStart(v), g), U64(g))))
                      => /\ ~ vol[v].call.req.issued
                         /\ vol[v].call.ret = "0"

====
